---- MODULE Spec2Model ----
(***************************************************************************)
(* The Panel: provider abstraction (src/providers), configuration          *)
(* resolver (src/config.py) and the orchestration layer (src/app.py).      *)
(*                                                                         *)
(* Python strings are modelled as sequences of one-character strings, so   *)
(* that lower(), startswith(), replace(), title(), the "in" substring test *)
(* and the ordering of strings are computed, not assumed.                  *)
(***************************************************************************)
EXTENDS Integers, Sequences, FiniteSets, TLC

VARIABLES env, interp, pc, resp, last, nreq,
          inst, cat, ncat,
          thr,
          loaded_tools, dirs, tlast, ntool, sys_modules,
          mcp_servers, invoked, mlast, nmcp,
          slast, nsearch,
          listing

vars == <<env, interp, pc, resp, last, nreq, inst, cat, ncat, thr,
          loaded_tools, dirs, tlast, ntool, sys_modules,
          mcp_servers, invoked, mlast, nmcp, slast, nsearch, listing>>

appVars == <<env, interp, pc, resp, last, nreq>>
catVars == <<inst, cat, ncat>>
raceVars == <<thr>>
toolVars == <<loaded_tools, dirs, tlast, ntool, sys_modules>>
mcpVars == <<mcp_servers, invoked, mlast, nmcp>>
searchVars == <<slast, nsearch>>
listVars == <<listing>>

(***************************************************************************)
(* Strings                                                                 *)
(***************************************************************************)

\* The characters used, in ascending code-point order.
Ascii == <<" ", "-", ".", "/", "0", "1", "2", "3", "4", "5", "6", "7", "8", "9", ":",
           "A", "B", "C", "D", "E", "F", "G", "H", "I", "J", "K", "L", "M",
           "N", "O", "P", "Q", "R", "S", "T", "U", "V", "W", "X", "Y", "Z", "_",
           "a", "b", "c", "d", "e", "f", "g", "h", "i", "j", "k", "l", "m",
           "n", "o", "p", "q", "r", "s", "t", "u", "v", "w", "x", "y", "z">>

UpperAlpha == <<"A", "B", "C", "D", "E", "F", "G", "H", "I", "J", "K", "L", "M",
                "N", "O", "P", "Q", "R", "S", "T", "U", "V", "W", "X", "Y", "Z">>

LowerAlpha == <<"a", "b", "c", "d", "e", "f", "g", "h", "i", "j", "k", "l", "m",
                "n", "o", "p", "q", "r", "s", "t", "u", "v", "w", "x", "y", "z">>

Digits == <<"0", "1", "2", "3", "4", "5", "6", "7", "8", "9">>

Range(s) == {s[i] : i \in 1..Len(s)}

IndexOf(s, c) == CHOOSE i \in 1..Len(s) : s[i] = c

Chars == Range(Ascii)
UpperChars == Range(UpperAlpha)
LowerChars == Range(LowerAlpha)
DigitChars == Range(Digits)

\* ord(c), up to an order-preserving renumbering
CodeOf == [c \in Chars |-> IndexOf(Ascii, c)]
Code(c) == CodeOf[c]

IsUpper(c) == c \in UpperChars
IsLower(c) == c \in LowerChars
IsCased(c) == IsUpper(c) \/ IsLower(c)

LowerOf == [c \in Chars |-> IF c \in UpperChars THEN LowerAlpha[IndexOf(UpperAlpha, c)] ELSE c]
UpperOf == [c \in Chars |-> IF c \in LowerChars THEN UpperAlpha[IndexOf(LowerAlpha, c)] ELSE c]
DigitOf == [c \in DigitChars |-> IndexOf(Digits, c) - 1]

ToLower(c) == LowerOf[c]
ToUpper(c) == UpperOf[c]

\* str.lower()
Lower(s) == [i \in 1..Len(s) |-> ToLower(s[i])]

\* str.title(): a cased character is upper-cased when the character before it
\* is not cased, and lower-cased otherwise
Title(s) == [i \in 1..Len(s) |->
               IF IsCased(s[i])
               THEN IF i > 1 /\ IsCased(s[i-1]) THEN ToLower(s[i]) ELSE ToUpper(s[i])
               ELSE s[i]]

\* s.startswith(p)
StartsWith(s, p) == Len(p) <= Len(s) /\ SubSeq(s, 1, Len(p)) = p

\* needle in s
Contains(needle, s) ==
  \E i \in 0..(Len(s) - Len(needle)) : SubSeq(s, i + 1, i + Len(needle)) = needle

\* s.replace(old, new) for a non-empty old: non-overlapping, left to right
RECURSIVE Replace(_, _, _)
Replace(s, old, new) ==
  IF Len(s) = 0 THEN <<>>
  ELSE IF StartsWith(s, old)
       THEN new \o Replace(SubSeq(s, Len(old) + 1, Len(s)), old, new)
       ELSE <<s[1]>> \o Replace(Tail(s), old, new)

MinOf(a, b) == IF a <= b THEN a ELSE b

\* a < b on strings: lexicographic by code point, a proper prefix is smaller
StrLess(a, b) ==
  \E i \in 1..(MinOf(Len(a), Len(b)) + 1) :
     /\ \A j \in 1..(i - 1) : a[j] = b[j]
     /\ \/ i > Len(a) /\ i <= Len(b)
        \/ i <= Len(a) /\ i <= Len(b) /\ Code(a[i]) < Code(b[i])

IsDigits(s) == Len(s) > 0 /\ \A i \in 1..Len(s) : s[i] \in DigitChars

RECURSIVE DigitsValue(_)
DigitsValue(s) ==
  IF Len(s) = 0 THEN 0
  ELSE 10 * DigitsValue(SubSeq(s, 1, Len(s) - 1)) + DigitOf[s[Len(s)]]

\* int(s) for a string s: a decimal literal with an optional sign, otherwise
\* ValueError
ParseInt(s) ==
  IF IsDigits(s) THEN [ok |-> TRUE, v |-> DigitsValue(s)]
  ELSE IF Len(s) > 1 /\ s[1] = "-" /\ IsDigits(Tail(s))
       THEN [ok |-> TRUE, v |-> 0 - DigitsValue(Tail(s))]
  ELSE IF Len(s) > 1 /\ s[1] = "+" /\ IsDigits(Tail(s))
       THEN [ok |-> TRUE, v |-> DigitsValue(Tail(s))]
  ELSE [ok |-> FALSE, v |-> 0]

\* Values that are not strings (None, a number) where a string is expected
NoneVal == <<"None">>
IntVal == <<"int">>
IsStr(v) == v # NoneVal /\ v # IntVal

\* bool(v) for a string or None
Truthy(v) == v # NoneVal /\ v # <<>>

\* dict.get(k, d); a dict is a function whose domain is its set of keys
Get(d, k, dflt) == IF k \in DOMAIN d THEN d[k] ELSE dflt

\* d[k] = v
Put(d, k, v) == [x \in DOMAIN d \cup {k} |-> IF x = k THEN v ELSE d[x]]

(***************************************************************************)
(* Results of calls that may raise                                         *)
(***************************************************************************)

Ok(v) == [exc |-> "none", val |-> v]
Raise(e) == [exc |-> e, val |-> <<>>]

(***************************************************************************)
(* Config (src/config.py).  The environment is a dict: a function from the *)
(* names of the variables that are set to their string values.             *)
(***************************************************************************)

PROVIDER_OPENAI == <<"o","p","e","n","a","i">>
PROVIDER_OLLAMA == <<"o","l","l","a","m","a">>
PROVIDER_DEEPSEEK == <<"d","e","e","p","s","e","e","k">>
PROVIDER_MHW == <<"m","h","w">>

\* The hardcoded default keys are opaque; their first characters stand for them.
DEEPSEEK_DEFAULT_KEY == <<"s","k","-","7","f","d","0">>
MHW_DEFAULT_KEY == <<"s","k","-","a","3","1","8">>

OPENAI_DEFAULT_BASE == <<"h","t","t","p","s",":","/","/","a","p","i",".","o","p","e","n","a","i",".","c","o","m","/","v","1">>
OLLAMA_DEFAULT_BASE == <<"h","t","t","p",":","/","/","l","o","c","a","l","h","o","s","t",":","1","1","4","3","4">>
DEEPSEEK_DEFAULT_BASE == <<"h","t","t","p","s",":","/","/","a","p","i",".","d","e","e","p","s","e","e","k",".","c","o","m","/","v","1">>
MHW_DEFAULT_BASE == <<"h","t","t","p","s",":","/","/","c","h","a","t",".","m","u","s","i","c","h","e","a","r","d","w","o","r","l","d","w","i","d","e",".","c","o","m","/","a","p","i">>

IsTrue(s) == Lower(s) = <<"t","r","u","e">>

GetOpenAIConfig(e) ==
  LET cw == ParseInt(Get(e, "CONTEXT_WINDOW", <<"1","0","0","0","0">>))
      mt == ParseInt(Get(e, "MAX_TOKENS", <<"4","0","9","6">>))
  IN IF ~cw.ok \/ ~mt.ok THEN Raise("ValueError")
     ELSE Ok([provider |-> PROVIDER_OPENAI,
              offline |-> FALSE,
              model |-> Get(e, "OPENAI_MODEL", <<"g","p","t","-","4","o">>),
              api_key |-> Get(e, "OPENAI_API_KEY", <<>>),
              context_window |-> cw.v,
              max_tokens |-> mt.v,
              auto_run |-> TRUE,
              verbose |-> IsTrue(Get(e, "VERBOSE", <<"f","a","l","s","e">>))])


\* _get_ollama_config falling back to the hosted budgets
GetOllamaConfig_HostedBudgets(e) ==
  LET cw == ParseInt(Get(e, "OLLAMA_CONTEXT_WINDOW", <<"8","1","9","2">>))
      mt == ParseInt(Get(e, "OLLAMA_MAX_TOKENS", <<"4","0","9","6">>))
  IN IF ~cw.ok \/ ~mt.ok THEN Raise("ValueError")
     ELSE Ok([provider |-> PROVIDER_OLLAMA,
              offline |-> TRUE,
              model |-> Get(e, "OLLAMA_MODEL", <<"l","l","a","m","a","3",".","1">>),
              api_base |-> Get(e, "OLLAMA_API_BASE", OLLAMA_DEFAULT_BASE),
              context_window |-> cw.v,
              max_tokens |-> mt.v,
              auto_run |-> TRUE,
              verbose |-> IsTrue(Get(e, "VERBOSE", <<"t","r","u","e">>))])

GetOllamaConfig(e) ==
  LET cw == ParseInt(Get(e, "OLLAMA_CONTEXT_WINDOW", <<"4","0","0","0">>))
      mt == ParseInt(Get(e, "OLLAMA_MAX_TOKENS", <<"3","0","0","0">>))
  IN IF ~cw.ok \/ ~mt.ok THEN Raise("ValueError")
     ELSE Ok([provider |-> PROVIDER_OLLAMA,
              offline |-> TRUE,
              model |-> Get(e, "OLLAMA_MODEL", <<"l","l","a","m","a","3",".","1">>),
              api_base |-> Get(e, "OLLAMA_API_BASE", OLLAMA_DEFAULT_BASE),
              context_window |-> cw.v,
              max_tokens |-> mt.v,
              auto_run |-> TRUE,
              verbose |-> IsTrue(Get(e, "VERBOSE", <<"t","r","u","e">>))])

GetDeepseekConfig(e) ==
  LET cw == ParseInt(Get(e, "DEEPSEEK_CONTEXT_WINDOW", <<"8","1","9","2">>))
      mt == ParseInt(Get(e, "DEEPSEEK_MAX_TOKENS", <<"4","0","9","6">>))
  IN IF ~cw.ok \/ ~mt.ok THEN Raise("ValueError")
     ELSE Ok([provider |-> PROVIDER_DEEPSEEK,
              offline |-> FALSE,
              model |-> Get(e, "DEEPSEEK_MODEL", <<"d","e","e","p","s","e","e","k","-","c","h","a","t">>),
              api_key |-> Get(e, "DEEPSEEK_API_KEY", DEEPSEEK_DEFAULT_KEY),
              api_base |-> Get(e, "DEEPSEEK_API_BASE", DEEPSEEK_DEFAULT_BASE),
              context_window |-> cw.v,
              max_tokens |-> mt.v,
              auto_run |-> TRUE,
              verbose |-> IsTrue(Get(e, "VERBOSE", <<"f","a","l","s","e">>))])

GetMhwConfig(e) ==
  LET cw == ParseInt(Get(e, "MHW_CONTEXT_WINDOW", <<"8","1","9","2">>))
      mt == ParseInt(Get(e, "MHW_MAX_TOKENS", <<"4","0","9","6">>))
  IN IF ~cw.ok \/ ~mt.ok THEN Raise("ValueError")
     ELSE Ok([provider |-> PROVIDER_MHW,
              offline |-> FALSE,
              model |-> Get(e, "MHW_MODEL", <<"d","e","f","a","u","l","t">>),
              api_key |-> Get(e, "MHW_API_KEY", MHW_DEFAULT_KEY),
              api_base |-> Get(e, "MHW_API_BASE", MHW_DEFAULT_BASE),
              context_window |-> cw.v,
              max_tokens |-> mt.v,
              auto_run |-> TRUE,
              verbose |-> IsTrue(Get(e, "VERBOSE", <<"f","a","l","s","e">>))])

GetModelConfig(e) ==
  LET provider == Lower(Get(e, "PROVIDER", <<"o","p","e","n","a","i">>))
  IN IF provider = PROVIDER_OLLAMA THEN GetOllamaConfig(e)
     ELSE IF provider = PROVIDER_DEEPSEEK THEN GetDeepseekConfig(e)
     ELSE IF provider = PROVIDER_MHW THEN GetMhwConfig(e)
     ELSE GetOpenAIConfig(e)

(***************************************************************************)
(* Providers (src/providers).  An instance holds what __init__ reads from  *)
(* the environment and its model cache.                                    *)
(***************************************************************************)

NoCache == [set |-> FALSE, models |-> <<>>]

OpenAIProvider(e) ==
  [cls |-> "OpenAIProvider",
   api_key |-> Get(e, "OPENAI_API_KEY", <<>>),
   api_base |-> Get(e, "OPENAI_API_BASE", OPENAI_DEFAULT_BASE),
   cache |-> NoCache]

OllamaProvider(e) ==
  [cls |-> "OllamaProvider",
   api_base |-> Get(e, "OLLAMA_API_BASE", OLLAMA_DEFAULT_BASE),
   cache |-> NoCache]

DeepseekProvider(e) ==
  [cls |-> "DeepseekProvider",
   api_key |-> Get(e, "DEEPSEEK_API_KEY", DEEPSEEK_DEFAULT_KEY),
   api_base |-> Get(e, "DEEPSEEK_API_BASE", DEEPSEEK_DEFAULT_BASE),
   cache |-> NoCache]

MHWProvider(e) ==
  [cls |-> "MHWProvider",
   api_key |-> Get(e, "MHW_API_KEY", MHW_DEFAULT_KEY),
   api_base |-> Get(e, "MHW_API_BASE", MHW_DEFAULT_BASE),
   cache |-> NoCache]


\* get_provider with a default branch that maps an unknown id to openai
get_provider_DefaultsToOpenAI(provider_id, e) ==
  IF provider_id = PROVIDER_OLLAMA THEN Ok(OllamaProvider(e))
  ELSE IF provider_id = PROVIDER_DEEPSEEK THEN Ok(DeepseekProvider(e))
  ELSE IF provider_id = PROVIDER_MHW THEN Ok(MHWProvider(e))
  ELSE Ok(OpenAIProvider(e))

get_provider(provider_id, e) ==
  IF provider_id = PROVIDER_OPENAI THEN Ok(OpenAIProvider(e))
  ELSE IF provider_id = PROVIDER_OLLAMA THEN Ok(OllamaProvider(e))
  ELSE IF provider_id = PROVIDER_DEEPSEEK THEN Ok(DeepseekProvider(e))
  ELSE IF provider_id = PROVIDER_MHW THEN Ok(MHWProvider(e))
  ELSE Raise("ValueError")

(***************************************************************************)
(* configure_interpreter of each provider: the writes it makes to the      *)
(* shared interpreter object, in program order.  The interpreter is a dict *)
(* from the names of the fields this program has written to their values;  *)
(* a field never written keeps the library's own default.                  *)
(***************************************************************************)

W(field, value) == [f |-> field, v |-> value]
RaiseStep(e) == [f |-> "raise", v |-> e]

OllamaPrefix == <<"o","l","l","a","m","a","/">>

OpenAISteps(self, config) ==
  LET custom_api_base == Get(config, "api_base", NoneVal)
  IN <<W("offline", FALSE),
       W("model", Get(config, "model", <<"g","p","t","-","4","o">>)),
       W("api_key", Get(config, "api_key", self.api_key))>>
     \o (IF Truthy(custom_api_base) /\ custom_api_base # self.api_base
         THEN <<W("api_base", custom_api_base)>>
         ELSE <<>>)
     \o <<W("context_window", Get(config, "context_window", 10000)),
          W("max_tokens", Get(config, "max_tokens", 4096)),
          W("auto_run", TRUE),
          W("verbose", Get(config, "verbose", FALSE))>>


\* OllamaProvider.configure_interpreter prefixing the model unconditionally
OllamaSteps_AlwaysPrefix(self, config) ==
  LET model == Get(config, "model", <<"l","l","a","m","a","3">>)
  IN <<W("offline", TRUE), W("model", model)>>
     \o (IF ~IsStr(model) THEN <<RaiseStep("AttributeError")>>
         ELSE <<W("model", OllamaPrefix \o model),
                W("api_base", Get(config, "api_base", self.api_base)),
                W("context_window", Get(config, "context_window", 4000)),
                W("max_tokens", Get(config, "max_tokens", 3000)),
                W("auto_run", TRUE),
                W("verbose", Get(config, "verbose", TRUE))>>)

OllamaSteps(self, config) ==
  LET model == Get(config, "model", <<"l","l","a","m","a","3">>)
  IN <<W("offline", TRUE), W("model", model)>>
     \o (IF ~IsStr(model) THEN <<RaiseStep("AttributeError")>>
         ELSE (IF ~StartsWith(model, OllamaPrefix)
               THEN <<W("model", OllamaPrefix \o model)>>
               ELSE <<>>)
              \o <<W("api_base", Get(config, "api_base", self.api_base)),
                   W("context_window", Get(config, "context_window", 4000)),
                   W("max_tokens", Get(config, "max_tokens", 3000)),
                   W("auto_run", TRUE),
                   W("verbose", Get(config, "verbose", TRUE))>>)

DeepseekSteps(self, config) ==
  LET model_id == Get(config, "model", <<"d","e","e","p","s","e","e","k","-","c","h","a","t">>)
  IN <<W("offline", FALSE),
       W("model", model_id),
       W("api_key", Get(config, "api_key", self.api_key)),
       W("api_base", Get(config, "api_base", self.api_base))>>
     \o (IF ~IsStr(model_id) THEN <<RaiseStep("AttributeError")>>
         ELSE (IF Contains(<<"c","o","d","e","r">>, Lower(model_id))
               THEN <<W("context_window", Get(config, "context_window", 16000)),
                      W("max_tokens", Get(config, "max_tokens", 8000))>>
               ELSE <<W("context_window", Get(config, "context_window", 8192)),
                      W("max_tokens", Get(config, "max_tokens", 4096))>>)
              \o <<W("auto_run", TRUE),
                   W("verbose", Get(config, "verbose", FALSE))>>)

MHWSteps(self, config) ==
  <<W("offline", FALSE),
    W("model", Get(config, "model", <<"d","e","f","a","u","l","t">>)),
    W("api_key", Get(config, "api_key", self.api_key)),
    W("api_base", Get(config, "api_base", self.api_base)),
    W("context_window", Get(config, "context_window", 8192)),
    W("max_tokens", Get(config, "max_tokens", 4096)),
    W("auto_run", TRUE),
    W("verbose", Get(config, "verbose", FALSE))>>

ProviderSteps(self, config) ==
  IF self.cls = "OpenAIProvider" THEN OpenAISteps(self, config)
  ELSE IF self.cls = "OllamaProvider" THEN OllamaSteps(self, config)
  ELSE IF self.cls = "DeepseekProvider" THEN DeepseekSteps(self, config)
  ELSE MHWSteps(self, config)

\* Runs the writes from the i-th on.  The interpreter object is an external
\* collaborator: failAt = k > 0 is the case where it rejects the k-th step.
RECURSIVE Exec(_, _, _, _)
Exec(ip, steps, i, failAt) ==
  IF i > Len(steps) THEN [interp |-> ip, exc |-> "none"]
  ELSE IF steps[i].f = "raise" THEN [interp |-> ip, exc |-> steps[i].v]
  ELSE IF i = failAt THEN [interp |-> ip, exc |-> "RuntimeError"]
  ELSE Exec(Put(ip, steps[i].f, steps[i].v), steps, i + 1, failAt)

\* provider_instance.configure_interpreter(interpreter, config)
ProviderConfigure(self, ip, config, failAt) ==
  Exec(ip, ProviderSteps(self, config), 1, failAt)

\* The record kept of one provider-level configure call
Call(self, config, exc) == [self |-> self, config |-> config, exc |-> exc]

(***************************************************************************)
(* Model catalogue (list_models, get_model_details of each provider).      *)
(*                                                                         *)
(* A model entry is a dict.  The answer of the remote API is               *)
(*   [kind |-> "transport_error"]          requests.get raised             *)
(*   [kind |-> "http", status, body]       a response; body is             *)
(*     [json |-> "invalid"]                response.json() raises          *)
(*     [json |-> "array"]                  JSON, but not an object         *)
(*     [json |-> "object", obj |-> d]      d a dict whose values are       *)
(*        [t |-> "null"] or [t |-> "list", items |-> entries]              *)
(* and an entry is a dict with keys among id, name, family, or             *)
(* [notobj |-> TRUE] for an entry that is not a JSON object.               *)
(***************************************************************************)

Entry(id, name, family) == [id |-> id, name |-> name, family |-> family]
Live(id, name, family, raw) ==
  [id |-> id, name |-> name, family |-> family, details |-> raw]

OpenAIDefaultModels ==
  <<Entry(<<"g","p","t","-","4","o">>, <<"G","P","T","-","4","o">>, <<"G","P","T","-","4">>),
    Entry(<<"g","p","t","-","4","-","t","u","r","b","o">>, <<"G","P","T","-","4"," ","T","u","r","b","o">>, <<"G","P","T","-","4">>),
    Entry(<<"g","p","t","-","4">>, <<"G","P","T","-","4">>, <<"G","P","T","-","4">>),
    Entry(<<"g","p","t","-","3",".","5","-","t","u","r","b","o">>, <<"G","P","T","-","3",".","5"," ","T","u","r","b","o">>, <<"G","P","T","-","3",".","5">>)>>

OllamaDefaultModels ==
  <<Entry(<<"l","l","a","m","a","3">>, <<"L","l","a","m","a"," ","3">>, <<"L","l","a","m","a">>),
    Entry(<<"l","l","a","m","a","2">>, <<"L","l","a","m","a"," ","2">>, <<"L","l","a","m","a">>),
    Entry(<<"m","i","s","t","r","a","l">>, <<"M","i","s","t","r","a","l">>, <<"M","i","s","t","r","a","l">>),
    Entry(<<"m","i","x","t","r","a","l">>, <<"M","i","x","t","r","a","l">>, <<"M","i","s","t","r","a","l">>),
    Entry(<<"c","o","d","e","l","l","a","m","a">>, <<"C","o","d","e"," ","L","l","a","m","a">>, <<"L","l","a","m","a">>)>>

DeepseekDefaultModels ==
  <<Entry(<<"d","e","e","p","s","e","e","k","-","c","h","a","t">>, <<"D","e","e","p","s","e","e","k"," ","C","h","a","t">>, <<"D","e","e","p","s","e","e","k"," ","C","h","a","t">>),
    Entry(<<"d","e","e","p","s","e","e","k","-","c","o","d","e","r">>, <<"D","e","e","p","s","e","e","k"," ","C","o","d","e","r">>, <<"D","e","e","p","s","e","e","k"," ","C","o","d","e","r">>)>>

MHWDefaultModels ==
  <<Entry(<<"d","e","f","a","u","l","t">>, <<"M","H","W"," ","D","e","f","a","u","l","t">>, <<"M","H","W">>),
    Entry(<<"m","h","w","-","1">>, <<"M","H","W","-","1">>, <<"M","H","W">>)>>

DefaultModels(cls) ==
  IF cls = "OpenAIProvider" THEN OpenAIDefaultModels
  ELSE IF cls = "OllamaProvider" THEN OllamaDefaultModels
  ELSE IF cls = "DeepseekProvider" THEN DeepseekDefaultModels
  ELSE MHWDefaultModels

\* The key of the model list in the payload
ListKey(cls) == IF cls = "OllamaProvider" THEN "models" ELSE "data"

IsObject(model) == "notobj" \notin DOMAIN model

\* One pass of the loop body over a raw entry: the entries appended (none or
\* one), or the exception raised
OpenAIEntry(model) ==
  IF ~IsObject(model) THEN Raise("AttributeError")
  ELSE LET model_id == Get(model, "id", <<>>)
       IN IF ~IsStr(model_id) THEN Raise("AttributeError")
          ELSE IF Contains(<<"g","p","t">>, Lower(model_id))
          THEN LET family == IF Contains(<<"g","p","t","-","4">>, model_id) THEN <<"G","P","T","-","4">>
                             ELSE IF Contains(<<"g","p","t","-","3",".","5">>, model_id) THEN <<"G","P","T","-","3",".","5">>
                             ELSE <<"O","t","h","e","r"," ","G","P","T">>
                   name == Replace(model_id, <<"g","p","t","-">>, <<"G","P","T","-">>)
               IN Ok(<<Live(model_id, name, family, model)>>)
          ELSE Ok(<<>>)

OllamaEntry(model) ==
  IF ~IsObject(model) THEN Raise("AttributeError")
  ELSE LET model_id == Get(model, "name", <<>>)
       IN IF ~IsStr(model_id) THEN Raise("AttributeError")
          ELSE LET low == Lower(model_id)
                   family == IF Contains(<<"l","l","a","m","a">>, low) THEN <<"L","l","a","m","a">>
                             ELSE IF Contains(<<"m","i","s","t","r","a","l">>, low) THEN <<"M","i","s","t","r","a","l">>
                             ELSE IF Contains(<<"m","i","x","t","r","a","l">>, low) THEN <<"M","i","s","t","r","a","l">>
                             ELSE IF Contains(<<"c","o","d","e","l","l","a","m","a">>, low) THEN <<"L","l","a","m","a">>
                             ELSE IF Contains(<<"g","e","m","m","a">>, low) THEN <<"G","e","m","m","a">>
                             ELSE <<"O","t","h","e","r">>
                   name == Title(Replace(model_id, <<"-">>, <<" ">>))
               IN Ok(<<Live(model_id, name, family, model)>>)

DeepseekEntry(model) ==
  IF ~IsObject(model) THEN Raise("AttributeError")
  ELSE LET model_id == Get(model, "id", <<>>)
       IN IF ~IsStr(model_id) THEN Raise("AttributeError")
          ELSE LET family == IF Contains(<<"c","o","d","e","r">>, Lower(model_id))
                             THEN <<"D","e","e","p","s","e","e","k"," ","C","o","d","e","r">> ELSE <<"D","e","e","p","s","e","e","k"," ","C","h","a","t">>
                   name == Title(Replace(model_id, <<"d","e","e","p","s","e","e","k","-">>, <<"D","e","e","p","s","e","e","k"," ">>))
               IN Ok(<<Live(model_id, name, family, model)>>)

MHWEntry(model) ==
  IF ~IsObject(model) THEN Raise("AttributeError")
  ELSE LET model_id == Get(model, "id", <<>>)
           name0 == Get(model, "name", model_id)
           family0 == Get(model, "family", <<"M","H","W">>)
           family == IF ~Truthy(family0) THEN <<"M","H","W">> ELSE family0
       IN IF Truthy(name0) THEN Ok(<<Live(model_id, name0, family, model)>>)
          ELSE IF ~IsStr(model_id) THEN Raise("AttributeError")
          ELSE Ok(<<Live(model_id, Title(Replace(model_id, <<"-">>, <<" ">>)), family, model)>>)

NormaliseEntry(cls, model) ==
  IF cls = "OpenAIProvider" THEN OpenAIEntry(model)
  ELSE IF cls = "OllamaProvider" THEN OllamaEntry(model)
  ELSE IF cls = "DeepseekProvider" THEN DeepseekEntry(model)
  ELSE MHWEntry(model)

\* The for loop over the payload's list
RECURSIVE Normalise(_, _)
Normalise(cls, items) ==
  IF Len(items) = 0 THEN Ok(<<>>)
  ELSE LET h == NormaliseEntry(cls, Head(items))
       IN IF h.exc # "none" THEN h
          ELSE LET t == Normalise(cls, Tail(items))
               IN IF t.exc # "none" THEN t ELSE Ok(h.val \o t.val)

\* Sort keys.  a < b on values that are strings or numbers: a string and a
\* number cannot be ordered (TypeError); the one number of the model equals
\* itself.
Unordered(a, b) == a # b /\ (~IsStr(a) \/ ~IsStr(b))

OpenAIRank(x) == IF x["family"] = <<"G","P","T","-","4">> THEN 0
                 ELSE IF x["family"] = <<"G","P","T","-","3",".","5">> THEN 1 ELSE 2

\* key(x) < key(y) for key = (rank, name)
OpenAILess(x, y) ==
  \/ OpenAIRank(x) < OpenAIRank(y)
  \/ OpenAIRank(x) = OpenAIRank(y) /\ StrLess(x["name"], y["name"])

\* key(x) < key(y) for key = (family, name)
FamilyNameLess(x, y) ==
  IF x["family"] # y["family"] THEN StrLess(x["family"], y["family"])
  ELSE x["name"] # y["name"] /\ StrLess(x["name"], y["name"])

KeyLess(cls, x, y) ==
  IF cls = "OpenAIProvider" THEN OpenAILess(x, y) ELSE FamilyNameLess(x, y)

\* Comparing the keys of x and y raises TypeError
KeyUnordered(cls, x, y) ==
  IF cls = "OpenAIProvider" THEN FALSE
  ELSE IF x["family"] # y["family"] THEN Unordered(x["family"], y["family"])
  ELSE Unordered(x["name"], y["name"])

\* x placed before the first element greater than it (a stable insertion)
RECURSIVE InsertSorted(_, _, _)
InsertSorted(cls, sorted, x) ==
  IF Len(sorted) = 0 THEN <<x>>
  ELSE IF KeyLess(cls, x, Head(sorted)) THEN <<x>> \o sorted
  ELSE <<Head(sorted)>> \o InsertSorted(cls, Tail(sorted), x)

RECURSIVE StableSort(_, _)
StableSort(cls, models) ==
  IF Len(models) = 0 THEN <<>>
  ELSE InsertSorted(cls, StableSort(cls, SubSeq(models, 1, Len(models) - 1)),
                    models[Len(models)])

\* models.sort(key=...): a stable sort, or TypeError when two keys cannot be
\* ordered.  For lists of up to three entries list.sort compares every pair
\* of entries whose keys cannot be ordered, so the test is exact there.
SortModels(cls, models) ==
  IF \E i, j \in 1..Len(models) : i < j /\ KeyUnordered(cls, models[i], models[j])
  THEN Raise("TypeError")
  ELSE Ok(StableSort(cls, models))

\* The body of the try block once the response is there: the models to cache
\* and return, or the exception raised
SortFetched(cls, n) ==
  IF n.exc # "none" THEN n
  ELSE IF cls \in {"DeepseekProvider", "MHWProvider"} /\ Len(n.val) = 0
  THEN SortModels(cls, DefaultModels(cls))
  ELSE SortModels(cls, n.val)

Fetch(cls, body) ==
  IF body.json = "invalid" THEN Raise("JSONDecodeError")
  ELSE IF body.json # "object" THEN Raise("AttributeError")
  ELSE LET lst == Get(body.obj, ListKey(cls), [t |-> "list", items |-> <<>>])
       IN IF lst.t # "list" THEN Raise("TypeError")
          ELSE SortFetched(cls, Normalise(cls, lst.items))

ListResult(models, cache, source, exc) ==
  [models |-> models, cache |-> cache, source |-> source, exc |-> exc]

\* list_models storing the static sequence in the cache when the fetch failed
CacheFetched_CachesFallback(self, f) ==
  IF f.exc # "none"
  THEN ListResult(DefaultModels(self.cls),
                  [set |-> TRUE, models |-> DefaultModels(self.cls)], "fallback", "none")
  ELSE ListResult(f.val, [set |-> TRUE, models |-> f.val], "live", "none")

\* The end of the try block and the except clause: f is what the try block
\* produced
CacheFetched(self, f) ==
  IF f.exc # "none"
  THEN ListResult(DefaultModels(self.cls), self.cache, "fallback", "none")
  ELSE ListResult(f.val, [set |-> TRUE, models |-> f.val], "live", "none")

\* self.list_models() when the remote API answers `response`.  source tells
\* where the result came from; a call answered from the cache sends no request.
list_models(self, response) ==
  IF self.cache.set
  THEN ListResult(self.cache.models, self.cache, "cache", "none")
  ELSE IF response.kind = "transport_error"
  THEN ListResult(DefaultModels(self.cls), self.cache, "fallback", "none")
  ELSE IF response.status # 200
  THEN ListResult(DefaultModels(self.cls), self.cache, "fallback", "none")
  ELSE CacheFetched(self, Fetch(self.cls, response.body))

\* The first entry of models whose id is model_id, 0 when there is none
FirstMatch(models, model_id) ==
  IF \E k \in 1..Len(models) : models[k]["id"] = model_id
  THEN CHOOSE k \in 1..Len(models) :
         /\ models[k]["id"] = model_id
         /\ \A j \in 1..(k - 1) : models[j]["id"] # model_id
  ELSE 0

\* The dict returned for an entry without details
DetailsStub(cls, model_id) ==
  IF cls = "OllamaProvider" THEN [name |-> model_id] ELSE [id |-> model_id]


\* The loop over models = self.list_models(): l is what list_models returned
DetailsIn(self, model_id, l) ==
  LET k == FirstMatch(l.models, model_id)
  IN IF l.exc # "none"
     THEN [list |-> l, exc |-> l.exc, details |-> <<>>]
     ELSE IF k = 0
     THEN [list |-> l, exc |-> "ValueError", details |-> <<>>]
     ELSE [list |-> l, exc |-> "none",
           details |-> Get(l.models[k], "details", DetailsStub(self.cls, model_id))]

\* get_model_details searching the cached models without calling list_models
get_model_details_CacheOnly(self, model_id, response) ==
  LET l == list_models(self, response)
      k == FirstMatch(self.cache.models, model_id)
  IN IF k = 0
     THEN [list |-> l, exc |-> "ValueError", details |-> <<>>]
     ELSE [list |-> l, exc |-> "none",
           details |-> Get(self.cache.models[k], "details",
                           DetailsStub(self.cls, model_id))]

\* self.get_model_details(model_id)
get_model_details(self, model_id, response) ==
  DetailsIn(self, model_id, list_models(self, response))

(***************************************************************************)
(* Orchestration (src/app.py)                                              *)
(***************************************************************************)

\* The fallback of the except block: get_provider("openai") configured with
\* Config._get_openai_config(); first is the failed attempt
FallbackToOpenAI(e, first, calls1, k2) ==
  LET g2 == get_provider(PROVIDER_OPENAI, e)
      c2 == GetOpenAIConfig(e)
      second == ProviderConfigure(g2.val, first.interp, c2.val, k2)
  IN IF g2.exc # "none"
     THEN [interp |-> first.interp, exc |-> g2.exc, calls |-> calls1, retries |-> 1]
     ELSE IF c2.exc # "none"
     THEN [interp |-> first.interp, exc |-> c2.exc, calls |-> calls1, retries |-> 1]
     ELSE [interp |-> second.interp, exc |-> second.exc,
           calls |-> Append(calls1, Call(g2.val, c2.val, second.exc)),
           retries |-> 1]

\* What follows the try block: first is its outcome, made the provider and
\* config it called (none when get_provider raised)
AfterFirstAttempt(e, provider_id, first, made, k2) ==
  LET calls1 == [i \in DOMAIN made |-> Call(made[i].self, made[i].config, first.exc)]
  IN IF first.exc = "none"
     THEN [interp |-> first.interp, exc |-> "none", calls |-> calls1, retries |-> 0]
     ELSE IF provider_id # PROVIDER_OPENAI
     THEN FallbackToOpenAI(e, first, calls1, k2)
     ELSE [interp |-> first.interp, exc |-> "none", calls |-> calls1, retries |-> 0]

\* The function once Config.get_model_config() returned r
ConfigureResolved(e, ip, r, k1, k2) ==
  IF r.exc # "none"
  THEN [interp |-> ip, exc |-> r.exc, calls |-> <<>>, retries |-> 0]
  ELSE LET config == r.val
           provider_id == Get(config, "provider", PROVIDER_OPENAI)
           g == get_provider(provider_id, e)
       IN IF g.exc # "none"
          THEN AfterFirstAttempt(e, provider_id, [interp |-> ip, exc |-> g.exc],
                                 <<>>, k2)
          ELSE AfterFirstAttempt(e, provider_id,
                                 ProviderConfigure(g.val, ip, config, k1),
                                 <<[self |-> g.val, config |-> config]>>, k2)

\* configure_interpreter(): k1, k2 are the fault points of the first
\* configure and of the fallback configure
configure_interpreter(e, ip, k1, k2) ==
  ConfigureResolved(e, ip, GetModelConfig(e), k1, k2)

\* interpreter.llm.model as an endpoint reads it
LibraryDefault == <<"library-default">>
ReadField(ip, field) == Get(ip, field, LibraryDefault)

\* The environment after update_provider's assignments, or TypeError when a
\* value is not a string (os.environ accepts strings only)
UpdateEnv(e, provider_id, model_id) ==
  IF ~IsStr(provider_id) THEN [env |-> e, exc |-> "TypeError"]
  ELSE LET e1 == Put(e, "PROVIDER", provider_id)
           key == IF provider_id = PROVIDER_OPENAI THEN "OPENAI_MODEL"
                  ELSE IF provider_id = PROVIDER_OLLAMA THEN "OLLAMA_MODEL"
                  ELSE IF provider_id = PROVIDER_DEEPSEEK THEN "DEEPSEEK_MODEL"
                  ELSE IF provider_id = PROVIDER_MHW THEN "MHW_MODEL"
                  ELSE "none"
       IN IF ~Truthy(model_id) \/ key = "none" THEN [env |-> e1, exc |-> "none"]
          ELSE IF ~IsStr(model_id) THEN [env |-> e1, exc |-> "TypeError"]
          ELSE [env |-> Put(e1, key, model_id), exc |-> "none"]

\* The answer after configure_interpreter() returned or raised r
Reconfigured(e, r) ==
  [env |-> e, interp |-> r.interp,
   status |-> IF r.exc = "none" THEN 200 ELSE 500,
   exc |-> r.exc, calls |-> r.calls, retries |-> r.retries]

\* update_provider(): the whole handler
update_provider(e, ip, provider_id, model_id, k1, k2) ==
  IF ~Truthy(provider_id)
  THEN [env |-> e, interp |-> ip, status |-> 400, exc |-> "none", calls |-> <<>>,
        retries |-> 0]
  ELSE LET u == UpdateEnv(e, provider_id, model_id)
       IN IF u.exc # "none"
          THEN [env |-> u.env, interp |-> ip, status |-> 500, exc |-> u.exc,
                calls |-> <<>>, retries |-> 0]
          ELSE Reconfigured(u.env, configure_interpreter(u.env, ip, k1, k2))

(***************************************************************************)
(* The process: module import runs configure_interpreter() once, then the  *)
(* server handles requests.                                                *)
(***************************************************************************)

MaxRequests == 2
MaxFaultRequests == 1
MaxDirect == 2

\* Environments the process may be started in
InitEnvs ==
  { <<>>,
    [k \in {"PROVIDER"} |-> <<"o","l","l","a","m","a">>],
    [k \in {"PROVIDER", "DEEPSEEK_MODEL"} |->
       IF k = "PROVIDER" THEN <<"d","e","e","p","s","e","e","k">> ELSE <<"d","e","e","p","s","e","e","k","-","c","o","d","e","r">>],
    [k \in {"PROVIDER", "CONTEXT_WINDOW"} |->
       IF k = "PROVIDER" THEN <<"m","h","w">> ELSE <<"a","b","c">>],
    [k \in {"OLLAMA_CONTEXT_WINDOW"} |-> <<"2","0","4","8">>],
    [k \in {"MAX_TOKENS"} |-> <<"4","o","9","6">>] }

\* Request bodies of POST /update_provider
ProviderInputs == {<<"o","p","e","n","a","i">>, <<"o","l","l","a","m","a">>, <<"d","e","e","p","s","e","e","k">>, <<"m","h","w">>, <<"b","o","g","u","s">>, <<"O","l","l","a","m","a">>, NoneVal}
ModelInputs == {NoneVal, <<"d","e","e","p","s","e","e","k","-","c","o","d","e","r">>, <<"l","l","a","m","a","3">>, <<"o","l","l","a","m","a","/","l","l","a","m","a","3">>}

\* Where the interpreter object may reject a write, in the first configure
\* and in the fallback configure: nowhere, at the first write, at the third
NoFault == <<0, 0>>
FaultPairs == {NoFault, <<1, 0>>, <<3, 0>>, <<1, 3>>, <<3, 1>>}

\* RuntimeConfigs a caller of the provider interface may pass
KnownProviders == {PROVIDER_OPENAI, PROVIDER_OLLAMA, PROVIDER_DEEPSEEK, PROVIDER_MHW}
DirectModels == {<<"d","e","e","p","s","e","e","k","-","c","o","d","e","r">>, <<"d","e","e","p","s","e","e","k","-","c","h","a","t">>, <<"D","e","e","p","S","e","e","k","-","C","o","d","e","r","-","V","2">>, <<"l","l","a","m","a","3">>,
                 <<"o","l","l","a","m","a","/","l","l","a","m","a","3">>, <<"o","l","l","a","m","a","/","o","l","l","a","m","a","/","l","l","a","m","a","3">>, NoneVal}
DirectConfigs == {<<>>} \cup {[k \in {"model"} |-> m] : m \in DirectModels}

MaxModels == 2
MaxCatalogOps == 2

\* Raw entries a payload may list: two well-formed ones, one whose id and
\* name are numbers, and one that is not an object
RawEntries ==
  <<[id |-> <<"g","p","t","-","4","o">>, name |-> <<"m","i","x","t","r","a","l">>],
    [id |-> <<"g","p","t","-","3",".","5","-","t","u","r","b","o">>, name |-> <<"l","l","a","m","a","3">>, family |-> <<"A","l","p","h","a">>],
    [id |-> IntVal, name |-> IntVal, family |-> <<"M","H","W">>],
    [notobj |-> TRUE]>>

\* Payload lists, as sequences of indices into RawEntries
IndexLists == UNION {[1..n -> 1..Len(RawEntries)] : n \in 0..MaxModels}
Items(ix) == [k \in 1..Len(ix) |-> RawEntries[ix[k]]]

Http(status, body) == [kind |-> "http", status |-> status, body |-> body]
ObjectBody(obj) == [json |-> "object", obj |-> obj]
ListBody(key, items) == ObjectBody([k \in {key} |-> [t |-> "list", items |-> items]])

\* Answers that do not carry a list under the provider's key
OtherResponses(cls) ==
  <<[kind |-> "transport_error"],
    Http(401, [json |-> "invalid"]),
    Http(503, ListBody(ListKey(cls), Items(<<1>>))),
    Http(200, [json |-> "invalid"]),
    Http(200, [json |-> "array"]),
    Http(200, ObjectBody([x \in {} |-> TRUE])),
    Http(200, ObjectBody([k \in {ListKey(cls)} |-> [t |-> "null"]]))>>

\* Ids asked of get_provider and of get_model_details
CatalogProviderIds == {<<"o","p","e","n","a","i">>, <<"o","l","l","a","m","a">>, <<"d","e","e","p","s","e","e","k">>, <<"m","h","w">>, <<"b","o","g","u","s">>, <<"O","p","e","n","A","I">>, <<>>}
DetailIds == {<<"g","p","t","-","4","o">>, <<"m","i","x","t","r","a","l">>}

NoInst == [cls |-> "none"]

NoResp == [op |-> "none", status |-> 0, provider |-> NoneVal, model |-> NoneVal]
NoLast == [op |-> "none", exc |-> "none", calls |-> <<>>, retries |-> 0]

InitApp ==
  /\ env \in InitEnvs
  /\ interp = <<>>
  /\ pc = "boot"
  /\ resp = NoResp
  /\ last = NoLast
  /\ nreq = 0

NoCat == [op |-> "none"]

InitCat ==
  /\ inst = NoInst
  /\ cat = NoCat
  /\ ncat = 0

\* The request threads of the server, none of them in a handler
Threads == {1, 2}
Idle == [pc |-> "idle"]
InitThreads == thr = [t \in Threads |-> Idle]

\* sys.modules when the manager is created: the modules the process imported
StdModules == [n \in {<<"j","s","o","n">>} |-> [exists |-> TRUE, raises |-> "none", attrs |-> <<>>,
                                     NAME |-> <<"None">>]]

\* ToolManager.__init__: the tools directory exists, nothing is loaded
ToolsDir == <<"/","h","o","m","e","/",".","t","h","e","_","p","a","n","e","l","/","t","o","o","l","s">>
NoToolOp == [op |-> "none"]
InitTools ==
  /\ loaded_tools = <<>>
  /\ dirs = [p \in {ToolsDir} |-> [kind |-> "dir"]]
  /\ tlast = NoToolOp
  /\ ntool = 0
  /\ sys_modules = StdModules

\* ToolManager.__init__: no server is registered.  invoked is the history of
\* the start and stop calls made on each server module
McpHandleIds == {1, 2, 3, 4}
NoMcpOp == [op |-> "none"]
InitMcp ==
  /\ mcp_servers = <<>>
  /\ invoked = [h \in McpHandleIds |-> <<>>]
  /\ mlast = NoMcpOp
  /\ nmcp = 0

\* No search was made
NoSearch == [op |-> "none"]
InitSearch == slast = NoSearch /\ nsearch = 0

\* No listing request and no registration are under way
NoListing == [pc |-> "idle"]
InitListing == listing = NoListing

InitRest == InitMcp /\ InitSearch /\ InitListing

Init == InitApp /\ InitCat /\ InitThreads /\ InitTools /\ InitRest

Startup(k1, k2) ==
  /\ pc = "boot"
  /\ \E r \in {configure_interpreter(env, interp, k1, k2)} :
        /\ interp' = r.interp
        /\ pc' = IF r.exc = "none" THEN "serving" ELSE "crashed"
        /\ last' = [op |-> "startup", exc |-> r.exc, calls |-> r.calls,
                    retries |-> r.retries]
  /\ UNCHANGED <<env, resp, nreq>>
  /\ UNCHANGED <<catVars, raceVars, toolVars, mcpVars, searchVars, listVars>>

UpdateProvider(provider_id, model_id, k1, k2, bound) ==
  /\ pc = "serving"
  /\ nreq < bound
  /\ \E r \in {update_provider(env, interp, provider_id, model_id, k1, k2)} :
        /\ env' = r.env
        /\ interp' = r.interp
        /\ resp' = [op |-> "update_provider", status |-> r.status,
                    provider |-> provider_id,
                    model |-> ReadField(r.interp, "model")]
        /\ last' = [op |-> "update_provider", exc |-> r.exc, calls |-> r.calls,
                    retries |-> r.retries]
  /\ nreq' = nreq + 1
  /\ pc' = pc
  /\ UNCHANGED <<catVars, raceVars, toolVars, mcpVars, searchVars, listVars>>

\* A caller of the provider interface: get_provider(id).configure_interpreter(
\* interpreter, config) with a RuntimeConfig of its own
ConfigureDirect(provider_id, config) ==
  /\ pc = "serving"
  /\ nreq < MaxDirect
  /\ \E g \in {get_provider(provider_id, env)} :
     \E r \in {ProviderConfigure(g.val, interp, config, 0)} :
        /\ interp' = r.interp
        /\ last' = [op |-> "direct", exc |-> r.exc,
                    calls |-> <<Call(g.val, config, r.exc)>>, retries |-> 0]
  /\ nreq' = nreq + 1
  /\ UNCHANGED <<env, pc, resp>>
  /\ UNCHANGED <<catVars, raceVars, toolVars, mcpVars, searchVars, listVars>>

\* A caller resolves a provider and keeps the instance
GetProviderCall(provider_id) ==
  /\ ncat < MaxCatalogOps
  /\ \E g \in {get_provider(provider_id, env)} :
        /\ inst' = IF g.exc = "none" THEN g.val ELSE inst
        /\ cat' = [op |-> "get_provider", id |-> provider_id, exc |-> g.exc,
                   cls |-> IF g.exc = "none" THEN g.val.cls ELSE "none"]
  /\ ncat' = ncat + 1
  /\ UNCHANGED <<appVars, raceVars, toolVars, mcpVars, searchVars, listVars>>

\* What a catalogue operation leaves in cat
CatRecord(op, self, model_id, response, l, exc, details) ==
  [op |-> op, cls |-> self.cls, before |-> self.cache, model_id |-> model_id,
   response |-> response,
   source |-> l.source, models |-> l.models, exc |-> exc, details |-> details]

ListModels(response) ==
  /\ inst.cls # "none"
  /\ ncat < MaxCatalogOps
  /\ \E l \in {list_models(inst, response)} :
        /\ inst' = [inst EXCEPT !.cache = l.cache]
        /\ cat' = CatRecord("list_models", inst, <<>>, response, l, l.exc, <<>>)
  /\ ncat' = ncat + 1
  /\ UNCHANGED <<appVars, raceVars, toolVars, mcpVars, searchVars, listVars>>

GetModelDetails(model_id, response) ==
  /\ inst.cls # "none"
  /\ ncat < MaxCatalogOps
  /\ \E d \in {get_model_details(inst, model_id, response)} :
        /\ inst' = [inst EXCEPT !.cache = d.list.cache]
        /\ cat' = CatRecord("get_model_details", inst, model_id, response, d.list,
                            d.exc, d.details)
  /\ ncat' = ncat + 1
  /\ UNCHANGED <<appVars, raceVars, toolVars, mcpVars, searchVars, listVars>>

\* The server with an interpreter object that accepts every write
Next ==
  \/ Startup(0, 0)
  \/ \E p \in ProviderInputs, m \in ModelInputs : UpdateProvider(p, m, 0, 0, MaxRequests)

Spec == Init /\ [][Next]_vars

\* The server with an interpreter object that may reject a write
FaultNext ==
  \/ \E k \in FaultPairs : Startup(k[1], k[2])
  \/ \E p \in ProviderInputs, m \in ModelInputs, k \in FaultPairs :
       UpdateProvider(p, m, k[1], k[2], MaxFaultRequests)

FaultSpec == Init /\ [][FaultNext]_vars

\* The providers configured through the resolver and by direct callers
ProviderNext ==
  \/ Startup(0, 0)
  \/ \E p \in ProviderInputs, m \in ModelInputs : UpdateProvider(p, m, 0, 0, MaxDirect)
  \/ \E p \in KnownProviders, c \in DirectConfigs : ConfigureDirect(p, c)

ProviderSpec == Init /\ [][ProviderNext]_vars

(***************************************************************************)
(* What the last operation did                                             *)
(***************************************************************************)

\* The last provider-level configure call of the last operation
LastCall == last.calls[Len(last.calls)]

\* The last operation ended with a configure call that returned normally
Completed == last.calls # <<>> /\ LastCall.exc = "none"

\* An interpreter object no configure call has written to
Fresh == <<>>

InterpEq(a, b) == DOMAIN a = DOMAIN b /\ \A f \in DOMAIN a : a[f] = b[f]

Has(ip, field, value) == field \in DOMAIN ip /\ ip[field] = value

(***************************************************************************)
(* C1: after a configure call, every field of the shared interpreter object *)
(* is determined by that call's backend and RuntimeConfig alone: the object *)
(* is what the same call leaves on an object no earlier call has written    *)
(* to, so no field keeps a value written by an earlier configure.           *)
(***************************************************************************)
C1_OverwrittenWholesale ==
  Completed =>
    InterpEq(interp, ProviderConfigure(LastCall.self, Fresh, LastCall.config, 0).interp)

(***************************************************************************)
(* C2: in configure_interpreter, when configuring the selected backend      *)
(* raises, one retry with the openai defaults is made; when the retry fails *)
(* too the error propagates; configure_interpreter returns normally only    *)
(* when the last configure call it made returned normally.                  *)
(***************************************************************************)
C2_RetryOnceOrPropagate ==
  (last.op \in {"startup", "update_provider"} /\ last.calls # <<>>
     /\ last.calls[1].exc # "none")
  => /\ last.retries = 1
     /\ Len(last.calls) = 2 =>
          /\ last.calls[2].self.cls = "OpenAIProvider"
          /\ last.calls[2].config = GetOpenAIConfig(env).val
     /\ last.exc = "none" <=> (Len(last.calls) = 2 /\ last.calls[2].exc = "none")

(***************************************************************************)
(* C3: update_provider with a backend id outside {openai, ollama, deepseek, *)
(* mhw} does not report success and configures no backend.                  *)
(***************************************************************************)
C3_UnknownProviderRejected ==
  (resp.op = "update_provider" /\ Truthy(resp.provider) /\ IsStr(resp.provider)
     /\ resp.provider \notin KnownProviders)
  => (resp.status # 200 /\ last.calls = <<>>)

(***************************************************************************)
(* C8: after a configure call made with the resolver's configuration,       *)
(* auto_run is true; under the default environment (nothing set but the     *)
(* backend selector) context_window/max_tokens are 10000/4096 for openai,   *)
(* 4000/3000 for ollama, 8192/4096 for deepseek and 8192/4096 for mhw.      *)
(***************************************************************************)
DefaultEnvironment == DOMAIN env \subseteq {"PROVIDER"}

C8_DefaultNumerics ==
  Completed =>
    /\ Has(interp, "auto_run", TRUE)
    /\ DefaultEnvironment =>
         LET cls == LastCall.self.cls
         IN /\ cls = "OpenAIProvider" =>
                 Has(interp, "context_window", 10000) /\ Has(interp, "max_tokens", 4096)
            /\ cls = "OllamaProvider" =>
                 Has(interp, "context_window", 4000) /\ Has(interp, "max_tokens", 3000)
            /\ cls = "DeepseekProvider" =>
                 Has(interp, "context_window", 8192) /\ Has(interp, "max_tokens", 4096)
            /\ cls = "MHWProvider" =>
                 Has(interp, "context_window", 8192) /\ Has(interp, "max_tokens", 4096)

C8_Witness ==
  /\ Completed
  /\ DefaultEnvironment
  /\ last.op = "update_provider"
  /\ nreq = 2
  /\ LastCall.self.cls = "OllamaProvider"
  /\ Has(interp, "context_window", 4000)

(***************************************************************************)
(* C9: a deepseek configure with a model id containing "coder" leaves       *)
(* context_window = 16000 and max_tokens = 8000, any other model id 8192    *)
(* and 4096, both when the RuntimeConfig supplies only the model and when   *)
(* the resolver produced it from an environment that sets only the model.   *)
(***************************************************************************)
C9_OnlyModelGiven ==
  \/ last.op = "direct" /\ DOMAIN LastCall.config = {"model"}
  \/ last.op \in {"startup", "update_provider"}
       /\ DOMAIN env \subseteq {"PROVIDER", "DEEPSEEK_MODEL"}

C9_CoderBudgets ==
  (Completed /\ LastCall.self.cls = "DeepseekProvider" /\ C9_OnlyModelGiven)
  => IF Contains(<<"c","o","d","e","r">>, Lower(interp["model"]))
     THEN Has(interp, "context_window", 16000) /\ Has(interp, "max_tokens", 8000)
     ELSE Has(interp, "context_window", 8192) /\ Has(interp, "max_tokens", 4096)

(***************************************************************************)
(* C10: an ollama configure stores a model that starts with "ollama/": an   *)
(* unprefixed id gets the prefix added once, a prefixed id is stored        *)
(* unchanged, and configuring again with the stored value changes nothing.  *)
(***************************************************************************)
C10_PrefixedOnce ==
  (Completed /\ LastCall.self.cls = "OllamaProvider")
  => LET given == Get(LastCall.config, "model", <<"l","l","a","m","a","3">>)
         stored == interp["model"]
         again == ProviderConfigure(LastCall.self, interp,
                                    Put(LastCall.config, "model", stored), 0)
     IN /\ StartsWith(stored, OllamaPrefix)
        /\ StartsWith(given, OllamaPrefix) => stored = given
        /\ ~StartsWith(given, OllamaPrefix) =>
             /\ stored = OllamaPrefix \o given
             /\ ~StartsWith(SubSeq(stored, Len(OllamaPrefix) + 1, Len(stored)), OllamaPrefix)
        /\ again.exc = "none"
        /\ InterpEq(again.interp, interp)

C10_Witness ==
  /\ Completed
  /\ last.op = "direct"
  /\ LastCall.self.cls = "OllamaProvider"
  /\ "model" \in DOMAIN LastCall.config
  /\ LastCall.config["model"] = <<"l","l","a","m","a","3">>
  /\ interp["model"] = <<"o","l","l","a","m","a","/","l","l","a","m","a","3">>

(***************************************************************************)
(* C11: a provider's configure_interpreter never raises, whatever the       *)
(* RuntimeConfig: a model value that is absent, None or not a string is     *)
(* replaced by the backend's default.                                       *)
(***************************************************************************)
C11_ConfigureNeverFails ==
  last.op = "direct" =>
    /\ LastCall.exc = "none"
    /\ "model" \in DOMAIN interp
    /\ IsStr(interp["model"])

(***************************************************************************)
(* C12: resolving the configuration at startup raises exactly when some     *)
(* context-window or max-tokens variable of the environment does not parse  *)
(* as an integer, and then no request is served; unset values never raise.  *)
(***************************************************************************)
NumericKeys == {"CONTEXT_WINDOW", "MAX_TOKENS",
                "OLLAMA_CONTEXT_WINDOW", "OLLAMA_MAX_TOKENS",
                "DEEPSEEK_CONTEXT_WINDOW", "DEEPSEEK_MAX_TOKENS",
                "MHW_CONTEXT_WINDOW", "MHW_MAX_TOKENS"}

MalformedNumeric == \E k \in NumericKeys \cap DOMAIN env : ~ParseInt(env[k]).ok

C12_MalformedNumericFatal ==
  /\ last.op = "startup" =>
        /\ MalformedNumeric <=> last.exc = "ValueError"
        /\ last.exc = "ValueError" => pc = "crashed" /\ last.calls = <<>>
  /\ pc = "serving" => ~MalformedNumeric

\* A caller of the catalogue interface holding one provider instance
InitCatalog ==
  /\ env = <<>>
  /\ interp = <<>>
  /\ pc = "serving"
  /\ resp = NoResp
  /\ last = NoLast
  /\ nreq = 0
  /\ inst \in {OpenAIProvider(env), OllamaProvider(env), DeepseekProvider(env),
               MHWProvider(env)}
  /\ cat = NoCat
  /\ ncat = 0
  /\ InitThreads
  /\ InitTools
  /\ InitRest

\* The answers of the remote API to a request of the held instance; a call
\* on an instance whose cache is set sends no request
NoRequest == [kind |-> "none"]

Responses ==
  IF inst.cls = "none" THEN {}
  ELSE IF inst.cache.set THEN {NoRequest}
  ELSE {OtherResponses(inst.cls)[k] : k \in 1..Len(OtherResponses(inst.cls))}
       \cup {Http(200, ListBody(ListKey(inst.cls), Items(ix))) : ix \in IndexLists}

CatalogNext ==
  \/ \E p \in CatalogProviderIds : GetProviderCall(p)
  \/ \E r \in Responses : ListModels(r)
  \/ \E m \in DetailIds, r \in Responses : GetModelDetails(m, r)

CatalogSpec == InitCatalog /\ [][CatalogNext]_vars

(***************************************************************************)
(* C4: get_provider returns the provider of each of the four known ids and  *)
(* raises ValueError for every other id; no unknown id yields a provider.   *)
(***************************************************************************)
C4_GetProviderClosedSet ==
  cat.op = "get_provider" =>
    /\ cat.id = <<"o","p","e","n","a","i">> => cat.exc = "none" /\ cat.cls = "OpenAIProvider"
    /\ cat.id = <<"o","l","l","a","m","a">> => cat.exc = "none" /\ cat.cls = "OllamaProvider"
    /\ cat.id = <<"d","e","e","p","s","e","e","k">> => cat.exc = "none" /\ cat.cls = "DeepseekProvider"
    /\ cat.id = <<"m","h","w">> => cat.exc = "none" /\ cat.cls = "MHWProvider"
    /\ cat.id \notin {<<"o","p","e","n","a","i">>, <<"o","l","l","a","m","a">>, <<"d","e","e","p","s","e","e","k">>, <<"m","h","w">>} =>
         cat.exc = "ValueError" /\ cat.cls = "none"
    /\ cat.exc = "none" => inst.cls = cat.cls /\ ~inst.cache.set

C4_Witness ==
  /\ cat.op = "get_provider"
  /\ cat.id = <<"O","p","e","n","A","I">>
  /\ cat.exc = "ValueError"
  /\ ncat = 2

(***************************************************************************)
(* C5: list_models never raises; after a transport error, a non-200 status  *)
(* or a malformed payload it returns exactly the static sequence.           *)
(***************************************************************************)
Sent == cat.source # "cache"
TransportError == cat.response.kind = "transport_error"
Non200 == cat.response.kind = "http" /\ cat.response.status # 200
Body == cat.response.body

\* The key under which a raw entry carries its id
IdKey(cls) == IF cls = "OllamaProvider" THEN "name" ELSE "id"

\* The payload is not a JSON object that lists, under the provider's key,
\* objects with a string id
MalformedPayload(cls, body) ==
  \/ body.json # "object"
  \/ ListKey(cls) \notin DOMAIN body.obj
  \/ body.obj[ListKey(cls)].t # "list"
  \/ \E k \in 1..Len(body.obj[ListKey(cls)].items) :
       LET e == body.obj[ListKey(cls)].items[k]
       IN ~IsObject(e) \/ IdKey(cls) \notin DOMAIN e \/ ~IsStr(e[IdKey(cls)])

C5_FallbackOnMalformed ==
  (cat.op = "list_models" /\ Sent)
  => /\ cat.exc = "none"
     /\ (TransportError \/ Non200 \/ MalformedPayload(cat.cls, Body))
          => cat.models = DefaultModels(cat.cls)

\* The payload cannot be decoded into a list of objects
Undecodable(cls, body) ==
  \/ body.json # "object"
  \/ /\ ListKey(cls) \in DOMAIN body.obj
     /\ \/ body.obj[ListKey(cls)].t # "list"
        \/ \E k \in 1..Len(body.obj[ListKey(cls)].items) :
             ~IsObject(body.obj[ListKey(cls)].items[k])

\* What list_models does guarantee: it never raises, and after a transport
\* error, a non-200 status or a payload whose decoding or normalisation
\* raises it returns exactly the static sequence and leaves the cache unset.
ListModelsContainsFetchErrors ==
  cat.op = "list_models" =>
    /\ cat.exc = "none"
    /\ (Sent /\ (TransportError \/ Non200 \/ Undecodable(cat.cls, Body)
                   \/ Fetch(cat.cls, Body).exc # "none"))
         => /\ cat.models = DefaultModels(cat.cls)
            /\ cat.source = "fallback"
            /\ ~inst.cache.set

(***************************************************************************)
(* C6: every sequence list_models returns, live or static, is sorted by the *)
(* backend's rule: (family rank, name) for openai, (family, name) for the   *)
(* other backends.                                                          *)
(***************************************************************************)
Sorted(cls, models) ==
  \A i, j \in 1..Len(models) : i < j => ~KeyLess(cls, models[j], models[i])

C6_AlwaysSorted ==
  cat.op = "list_models" => Sorted(cat.cls, cat.models)

(***************************************************************************)
(* C7: get_model_details takes the catalogue from list_models (the cache    *)
(* when it is set, a fetch otherwise), returns the details of the first     *)
(* entry whose id matches, and raises ValueError exactly when no entry of   *)
(* that catalogue has the id.                                               *)
(***************************************************************************)
C7_DetailsOrNotFound ==
  cat.op = "get_model_details" =>
    LET hits == {k \in 1..Len(cat.models) : cat.models[k]["id"] = cat.model_id}
    IN /\ cat.before.set => cat.source = "cache" /\ cat.models = cat.before.models
       /\ ~cat.before.set => cat.source \in {"live", "fallback"}
       /\ cat.source = "fallback" => cat.models = DefaultModels(cat.cls)
       /\ cat.exc \in {"none", "ValueError"}
       /\ cat.exc = "ValueError" <=> hits = {}
       /\ hits # {} =>
            LET first == CHOOSE k \in hits : \A j \in hits : k <= j
                m == cat.models[first]
            IN cat.details = IF "details" \in DOMAIN m THEN m["details"]
                             ELSE DetailsStub(cat.cls, cat.model_id)

C7_Witness ==
  /\ cat.op = "get_model_details"
  /\ cat.before.set
  /\ cat.exc = "none"
  /\ cat.cls = "OllamaProvider"
  /\ cat.model_id = <<"m","i","x","t","r","a","l">>

(***************************************************************************)
(* Two update_provider requests handled by concurrent threads of the        *)
(* server.  The handler takes no lock, so its accesses to os.environ and    *)
(* to the shared interpreter object interleave statement by statement.      *)
(* The requests name a known backend and no model, so PROVIDER is the only  *)
(* variable written and the resolver's configuration never makes a          *)
(* provider raise.                                                          *)
(***************************************************************************)
RaceProviders == {<<"o","p","e","n","a","i">>, <<"o","l","l","a","m","a">>, <<"d","e","e","p","s","e","e","k">>}

\* The server after startup under the default environment
InitRace ==
  /\ env = <<>>
  /\ \E r \in {configure_interpreter(<<>>, <<>>, 0, 0)} :
       /\ interp = r.interp
       /\ last = [op |-> "startup", exc |-> r.exc, calls |-> r.calls,
                  retries |-> r.retries]
  /\ pc = "serving"
  /\ resp = NoResp
  /\ nreq = 0
  /\ InitCat
  /\ InitThreads
  /\ InitTools
  /\ InitRest

\* os.environ["PROVIDER"] = provider_id
SetProvider(t, provider_id) ==
  /\ thr[t].pc = "idle"
  /\ env' = UpdateEnv(env, provider_id, NoneVal).env
  /\ thr' = [thr EXCEPT ![t] = [pc |-> "resolve", provider_id |-> provider_id]]
  /\ UNCHANGED <<interp, pc, resp, last, nreq, catVars, toolVars, mcpVars, searchVars, listVars>>

\* configure_interpreter(): config = Config.get_model_config() and
\* provider_instance = providers.get_provider(provider_id)
Resolve(t) ==
  /\ thr[t].pc = "resolve"
  /\ \E r \in {GetModelConfig(env)} :
     \E g \in {get_provider(Get(r.val, "provider", PROVIDER_OPENAI), env)} :
       /\ r.exc = "none"
       /\ g.exc = "none"
       /\ thr' = [thr EXCEPT ![t] =
                    [pc |-> "write", provider_id |-> thr[t].provider_id,
                     config |-> r.val, self |-> g.val,
                     steps |-> ProviderSteps(g.val, r.val), i |-> 1]]
  /\ UNCHANGED <<appVars, catVars, toolVars, mcpVars, searchVars, listVars>>

\* One assignment of provider_instance.configure_interpreter(interpreter, config)
WriteField(t) ==
  /\ thr[t].pc = "write"
  /\ thr[t].steps[thr[t].i].f # "raise"
  /\ interp' = Put(interp, thr[t].steps[thr[t].i].f, thr[t].steps[thr[t].i].v)
  /\ thr' = [thr EXCEPT ![t].i = @ + 1,
                        ![t].pc = IF thr[t].i = Len(thr[t].steps) THEN "done"
                                  ELSE "write"]
  /\ UNCHANGED <<env, pc, resp, last, nreq, catVars, toolVars, mcpVars, searchVars, listVars>>

RaceNext ==
  \E t \in Threads :
    \/ \E p \in RaceProviders : SetProvider(t, p)
    \/ Resolve(t)
    \/ WriteField(t)

RaceSpec == InitRace /\ [][RaceNext]_vars

(***************************************************************************)
(* C13: once two concurrent update_provider requests have both completed,   *)
(* every field of the shared interpreter object that the later configure    *)
(* call writes holds the value that call wrote, and PROVIDER in the process *)
(* environment names the backend of that same call.                         *)
(***************************************************************************)
BothDone == \A t \in Threads : thr[t].pc = "done"

\* The value the configure call of thread t wrote last to field f
LastWritten(t, f) ==
  LET ks == {k \in 1..Len(thr[t].steps) : thr[t].steps[k].f = f}
  IN thr[t].steps[CHOOSE k \in ks : \A j \in ks : j <= k].v

FromCallOf(t) ==
  /\ \A k \in 1..Len(thr[t].steps) :
       interp[thr[t].steps[k].f] = LastWritten(t, thr[t].steps[k].f)
  /\ Lower(env["PROVIDER"]) = thr[t].config["provider"]

C13_LastWriteWins == BothDone => \E t \in Threads : FromCallOf(t)

(***************************************************************************)
(* C14: once a fetch has succeeded on a provider instance the cache is set, *)
(* and every later list_models call on the instance returns that snapshot   *)
(* whatever the remote API would answer, leaving the cache as it was; a     *)
(* call that ended in the static fallback leaves the cache unset, and a     *)
(* call on an instance without cache is answered from a fetch again.        *)
(***************************************************************************)
AnyResponse(cls) ==
  {OtherResponses(cls)[k] : k \in 1..Len(OtherResponses(cls))}
    \cup {Http(200, ListBody(ListKey(cls), Items(ix))) : ix \in IndexLists}

NoModule == [exists |-> FALSE, raises |-> "none", attrs |-> <<>>, NAME |-> NoneVal]
Module(raises, attrs) ==
  [exists |-> TRUE, raises |-> raises, attrs |-> attrs, NAME |-> NoneVal]
\* A module that defines NAME
NamedModule(NAME, attrs) ==
  [exists |-> TRUE, raises |-> "none", attrs |-> attrs, NAME |-> NAME]
Attr(name, callable, tagged) == [name |-> name, callable |-> callable, tagged |-> tagged]
DirNode(init, main) == [kind |-> "dir", init |-> init, main |-> main, mod |-> NoModule]
FileNode(mod) == [kind |-> "file", init |-> NoModule, main |-> NoModule, mod |-> mod]
Missing == [kind |-> "missing", init |-> NoModule, main |-> NoModule, mod |-> NoModule]

\* s.endswith(p)
EndsWith(s, p) == Len(p) <= Len(s) /\ SubSeq(s, Len(s) - Len(p) + 1, Len(s)) = p

\* The part of s after its last "/": os.path.basename(s), s.split("/")[-1]
RECURSIVE AfterLastSlash(_)
AfterLastSlash(s) ==
  IF Len(s) = 0 THEN <<>>
  ELSE IF s[Len(s)] = "/" THEN <<>>
  ELSE AfterLastSlash(SubSeq(s, 1, Len(s) - 1)) \o <<s[Len(s)]>>

\* os.path.join(a, b) for a relative b
Join(a, b) == IF Len(a) > 0 /\ a[Len(a)] = "/" THEN a \o b ELSE a \o <<"/">> \o b

\* The file system seen by the manager: the directories it cloned, then the
\* files the host already has
Lookup(fs, host, path) ==
  IF path \in DOMAIN fs THEN fs[path]
  ELSE IF path \in DOMAIN host THEN host[path]
  ELSE Missing

\* shutil.rmtree(path)
RmTree(fs, path) ==
  [p \in {q \in DOMAIN fs : q # path /\ ~StartsWith(q, path \o <<"/">>)} |-> fs[p]]

\* d[key] = value on a dict kept as a sequence of [key, info]
DictKeys(d) == [i \in DOMAIN d |-> d[i].key]
DictSet(d, key, value) ==
  IF \E i \in DOMAIN d : d[i].key = key
  THEN [i \in DOMAIN d |-> IF d[i].key = key THEN [key |-> key, info |-> value] ELSE d[i]]
  ELSE Append(d, [key |-> key, info |-> value])

\* ExtractFunctions without the test for tool metadata
ExtractFunctions_AllCallables(attrs) ==
  LET sel == SelectSeq(attrs, LAMBDA a : a.callable)
  IN [i \in DOMAIN sel |-> sel[i].name]

\* The loop over dir(module): the names of the callables with tool metadata
RECURSIVE ExtractFunctions(_)
ExtractFunctions(attrs) ==
  IF Len(attrs) = 0 THEN <<>>
  ELSE (IF Head(attrs).callable /\ Head(attrs).tagged THEN <<Head(attrs).name>>
        ELSE <<>>) \o ExtractFunctions(Tail(attrs))

ToolResult(lt, exc, msg, key, entry) ==
  [loaded_tools |-> lt, exc |-> exc, msg |-> msg, key |-> key, entry |-> entry,
   stderr |-> <<>>]

\* getattr(module, "NAME", name)
ToolName(mod, name) == IF mod.NAME = NoneVal THEN name ELSE mod.NAME

\* LoadModule with the registration moved before the import
LoadModule_RegistersFirst(lt, mod, path, name, entry) ==
  [ToolResult(DictSet(lt, name, [name |-> ToolName(mod, name), module |-> mod, path |-> path,
                                 functions |-> ExtractFunctions(mod.attrs)]),
              "none", "", name, entry)
     EXCEPT !.exc = IF mod.raises = "Exception" THEN "ValueError"
                    ELSE IF mod.raises # "none" THEN mod.raises ELSE "none",
            !.msg = IF mod.raises = "Exception" THEN "Failed to load tool" ELSE ""]

\* The try block of add_tool_from_path: import tool_path, extract, register
LoadModule(lt, mod, path, name, entry) ==
  IF mod.raises = "Exception"
  THEN ToolResult(lt, "ValueError", "Failed to load tool", name, entry)
  ELSE IF mod.raises # "none"
  THEN ToolResult(lt, mod.raises, "", name, entry)
  ELSE ToolResult(DictSet(lt, name, [name |-> ToolName(mod, name), module |-> mod, path |-> path,
                                     functions |-> ExtractFunctions(mod.attrs)]),
                  "none", "", name, entry)

\* The directory branch: __init__.py when it exists, main.py otherwise
LoadDirectory(lt, node, path, name) ==
  IF node.init.exists THEN LoadModule(lt, node.init, path, name, "__init__.py")
  ELSE IF node.main.exists THEN LoadModule(lt, node.main, path, name, "main.py")
  ELSE ToolResult(lt, "ValueError", "Could not find __init__.py or main.py", name, "none")

\* The function once name is settled
AddNamed(lt, node, path, name) ==
  IF node.kind = "dir" THEN LoadDirectory(lt, node, path, name)
  ELSE IF node.kind = "file" /\ EndsWith(path, <<".","p","y">>)
  THEN LoadModule(lt, node.mod, path, name, "file")
  ELSE ToolResult(lt, "ValueError", "Path must be a Python file or directory", name, "none")

\* self.add_tool_from_path(path, name); node is what the path holds
add_tool_from_path(lt, node, path, name) ==
  AddNamed(lt, node, path, IF name = NoneVal THEN AfterLastSlash(path) ELSE name)

\* self.get_tool_functions(): the names of the schemas returned
RECURSIVE Schemas(_, _)
Schemas(tool_name, functions) ==
  IF Len(functions) = 0 THEN <<>>
  ELSE <<tool_name \o <<"_">> \o Head(functions)>> \o Schemas(tool_name, Tail(functions))

RECURSIVE get_tool_functions(_)
get_tool_functions(lt) ==
  IF Len(lt) = 0 THEN <<>>
  ELSE Schemas(Head(lt).key, Head(lt).info.functions) \o get_tool_functions(Tail(lt))

\* repo_url.split("/")[-1] without a trailing ".git"
StripGit(n) == IF EndsWith(n, <<".","g","i","t">>) THEN SubSeq(n, 1, Len(n) - 4) ELSE n
RepoName(repo_url) == StripGit(AfterLastSlash(repo_url))

\* os.path.join(self.tools_dir, f"{repo_name}_{uuid.uuid4().hex[:8]}")
ToolDir(repo_url, uid) == Join(ToolsDir, RepoName(repo_url) \o <<"_">> \o uid)

\* What git clone leaves on disk.  clone is
\*   [kind |-> "ok", node]                 exit status 0, node checked out
\*   [kind |-> "exit", stderr, partial]    non-zero exit status; partial: the
\*                                         destination directory was created
\*   [kind |-> "oserror"]                  git could not be run
CloneOk(node) == [kind |-> "ok", node |-> node, stderr |-> <<>>, partial |-> FALSE]
CloneExit(stderr, partial) ==
  [kind |-> "exit", node |-> Missing, stderr |-> stderr, partial |-> partial]
CloneOSError == [kind |-> "oserror", node |-> Missing, stderr |-> <<>>, partial |-> FALSE]
NoClone == [kind |-> "none", node |-> Missing, stderr |-> <<>>, partial |-> FALSE]

CloneEffect(fs, tool_dir, clone) ==
  IF clone.kind = "ok" THEN Put(fs, tool_dir, clone.node)
  ELSE IF clone.kind = "exit" /\ clone.partial /\ tool_dir \notin DOMAIN fs
  THEN Put(fs, tool_dir, DirNode(NoModule, NoModule))
  ELSE fs

\* Cleanup that leaves the directory in place
Cleanup_Keeps(fs, tool_dir) == fs

\* if os.path.exists(tool_dir): shutil.rmtree(tool_dir)
Cleanup(fs, tool_dir) == IF tool_dir \in DOMAIN fs THEN RmTree(fs, tool_dir) ELSE fs

GithubResult(lt, fs, exc, msg, stderr, key, entry) ==
  [loaded_tools |-> lt, dirs |-> fs, exc |-> exc, msg |-> msg, stderr |-> stderr,
   key |-> key, entry |-> entry]

\* After a clone that exited 0: r is what add_tool_from_path returned or raised
AfterClone(fs, tool_dir, r) ==
  IF r.exc = "none"
  THEN GithubResult(r.loaded_tools, fs, "none", "", <<>>, r.key, r.entry)
  ELSE IF r.exc # "ValueError"
  THEN GithubResult(r.loaded_tools, fs, r.exc, "", <<>>, r.key, r.entry)
  ELSE GithubResult(r.loaded_tools, Cleanup(fs, tool_dir), "ValueError",
                    "Failed to add tool from GitHub", <<>>, r.key, r.entry)

\* The try block and its handlers: fs is the file system after git ran
Cloned(lt, fs, host, tool_dir, repo_name, clone) ==
  IF clone.kind = "exit"
  THEN GithubResult(lt, Cleanup(fs, tool_dir), "ValueError",
                    "Failed to clone repository", clone.stderr, repo_name, "none")
  ELSE IF clone.kind = "oserror"
  THEN GithubResult(lt, Cleanup(fs, tool_dir), "ValueError",
                    "Failed to add tool from GitHub", <<>>, repo_name, "none")
  ELSE AfterClone(fs, tool_dir,
                  add_tool_from_path(lt, Lookup(fs, host, tool_dir), tool_dir, repo_name))

\* self.add_tool_from_github(repo_url): uid is the uuid drawn, clone what git did
add_tool_from_github(lt, fs, host, repo_url, uid, clone) ==
  Cloned(lt, CloneEffect(fs, ToolDir(repo_url, uid), clone), host,
         ToolDir(repo_url, uid), RepoName(repo_url), clone)

\* os.path.splitext(os.path.basename(path))[0] for a path ending in ".py"
FileModuleName(path) == SubSeq(AfterLastSlash(path), 1, Len(AfterLastSlash(path)) - 3)

\* sys.modules[module_name] = module, made before exec_module runs and not
\* undone by the except block; mods is returned when that line is not reached
ModulesNamed(mods, node, path, name) ==
  IF node.kind = "dir"
  THEN (IF node.init.exists THEN Put(mods, name, node.init)
        ELSE IF node.main.exists THEN Put(mods, name, node.main)
        ELSE mods)
  ELSE IF node.kind = "file" /\ EndsWith(path, <<".","p","y">>)
  THEN Put(mods, FileModuleName(path), node.mod)
  ELSE mods

\* sys.modules after add_tool_from_path(path, name)
ModulesAfter(mods, node, path, name) ==
  ModulesNamed(mods, node, path, IF name = NoneVal THEN AfterLastSlash(path) ELSE name)

MaxToolOps == 2

\* Modules found on disk and in repositories
ModuleA == Module("none", <<Attr(<<"b","_","c">>, TRUE, TRUE), Attr(<<"h","e","l","p","e","r">>, TRUE, FALSE)>>)
ModuleB == Module("none", <<Attr(<<"D","A","T","A">>, FALSE, TRUE), Attr(<<"c">>, TRUE, TRUE),
                          Attr(<<"d">>, TRUE, TRUE)>>)
Broken == Module("Exception", <<>>)
Exits == Module("SystemExit", <<>>)
Weather == NamedModule(<<"w","x">>, <<Attr(<<"c">>, TRUE, TRUE)>>)

\* The files of the host
HostFiles ==
  [p \in {<<"/","t","/","a">>, <<"/","t","/","a","_","b">>, <<"/","t","/","b","o","t","h">>, <<"/","t","/","e","m","p","t","y">>, <<"/","t","/","c",".","p","y">>, <<"/","t","/","n","o","t","e","s",".","t","x","t">>,
          <<"/","t","/","b","a","d">>, <<"/","t","/","e","x","i","t">>, <<"/","t","/","w">>} |->
     IF p = <<"/","t","/","a">> THEN DirNode(ModuleA, NoModule)
     ELSE IF p = <<"/","t","/","a","_","b">> THEN DirNode(NoModule, ModuleB)
     ELSE IF p = <<"/","t","/","b","o","t","h">> THEN DirNode(ModuleA, ModuleB)
     ELSE IF p = <<"/","t","/","e","m","p","t","y">> THEN DirNode(NoModule, NoModule)
     ELSE IF p = <<"/","t","/","c",".","p","y">> THEN FileNode(ModuleB)
     ELSE IF p = <<"/","t","/","n","o","t","e","s",".","t","x","t">> THEN FileNode(ModuleA)
     ELSE IF p = <<"/","t","/","e","x","i","t">> THEN DirNode(NoModule, Exits)
     ELSE IF p = <<"/","t","/","w">> THEN DirNode(Weather, NoModule)
     ELSE DirNode(Broken, ModuleA)]

PathInputs == DOMAIN HostFiles \cup {<<"/","t","/","g","o","n","e">>}
NameInputs == {NoneVal, <<"a">>}
RepoInputs == {<<"h","t","t","p","s",":","/","/","g","i","t","h","u","b",".","c","o","m","/","u","/","a",".","g","i","t">>, <<"h","t","t","p","s",":","/","/","g","i","t","h","u","b",".","c","o","m","/","u","/","a","_","b">>,
               <<"h","t","t","p","s",":","/","/","g","i","t","h","u","b",".","c","o","m","/","u","/","a","/">>}
UuidInputs == {<<"0","a","1","b","2","c","3","d">>, <<"f","f","f","f","f","f","f","f">>}
CloneInputs ==
  {CloneOk(DirNode(ModuleA, NoModule)), CloneOk(DirNode(NoModule, ModuleB)),
   CloneOk(DirNode(NoModule, NoModule)), CloneOk(DirNode(Broken, ModuleA)),
   CloneOk(DirNode(Exits, NoModule)),
   CloneExit(<<"f","a","t","a","l",":"," ","n","o","t"," ","f","o","u","n","d">>, TRUE), CloneExit(<<"f","a","t","a","l",":"," ","n","o","t"," ","f","o","u","n","d">>, FALSE),
   CloneOSError}

ToolRecord(op, r, path, node, clone) ==
  [op |-> op, exc |-> r.exc, msg |-> r.msg, key |-> r.key, entry |-> r.entry,
   path |-> path, node |-> node, clone |-> clone, stderr |-> r.stderr,
   before |-> loaded_tools, dirs_before |-> DOMAIN dirs,
   modules_before |-> sys_modules]

AddToolFromPath(path, name) ==
  /\ ntool < MaxToolOps
  /\ \E r \in {add_tool_from_path(loaded_tools, Lookup(dirs, HostFiles, path), path, name)} :
       /\ loaded_tools' = r.loaded_tools
       /\ tlast' = ToolRecord("add_tool_from_path", r, path,
                              Lookup(dirs, HostFiles, path), NoClone)
  /\ dirs' = dirs
  /\ sys_modules' = ModulesAfter(sys_modules, Lookup(dirs, HostFiles, path), path, name)
  /\ ntool' = ntool + 1
  /\ UNCHANGED <<appVars, catVars, raceVars, mcpVars, searchVars, listVars>>

\* git refuses to clone into a directory that exists and is not empty
AddToolFromGithub(repo_url, uid, clone) ==
  /\ ntool < MaxToolOps
  /\ clone.kind = "ok" => ToolDir(repo_url, uid) \notin DOMAIN dirs
  /\ \E r \in {add_tool_from_github(loaded_tools, dirs, HostFiles, repo_url, uid, clone)} :
       /\ loaded_tools' = r.loaded_tools
       /\ dirs' = r.dirs
       /\ tlast' = ToolRecord("add_tool_from_github", r, ToolDir(repo_url, uid),
                              clone.node, clone)
  /\ sys_modules' = IF clone.kind = "ok"
                    THEN ModulesAfter(sys_modules, clone.node, ToolDir(repo_url, uid),
                                      RepoName(repo_url))
                    ELSE sys_modules
  /\ ntool' = ntool + 1
  /\ UNCHANGED <<appVars, catVars, raceVars, mcpVars, searchVars, listVars>>

InitToolManager ==
  /\ env = <<>>
  /\ interp = <<>>
  /\ pc = "serving"
  /\ resp = NoResp
  /\ last = NoLast
  /\ nreq = 0
  /\ InitCat
  /\ InitThreads
  /\ InitTools
  /\ InitRest

ToolNext ==
  \/ \E p \in PathInputs, n \in NameInputs : AddToolFromPath(p, n)
  \/ \E u \in RepoInputs, i \in UuidInputs, c \in CloneInputs : AddToolFromGithub(u, i, c)

ToolSpec == InitToolManager /\ [][ToolNext]_vars

\* ---------------------------------------------------------------------
\* Tool manager claims

ToolFailed == tlast.op # "none" /\ tlast.exc # "none"
ToolSucceeded == tlast.op # "none" /\ tlast.exc = "none"

\* The names of the attributes that are callable and carry tool metadata
TaggedCallables(attrs) ==
  LET sel == SelectSeq(attrs, LAMBDA a : a.callable /\ a.tagged)
  IN [i \in DOMAIN sel |-> sel[i].name]

\* C15: no partial registration.  When add_tool_from_path or
\* add_tool_from_github fails, loaded_tools is what it was before the call;
\* every registered tool has a module that was imported without raising and
\* the functions extracted from all of its attributes.
C15_NoPartialRegistration ==
  /\ ToolFailed => loaded_tools = tlast.before
  /\ \A i \in DOMAIN loaded_tools :
       /\ loaded_tools[i].info.module.exists
       /\ loaded_tools[i].info.module.raises = "none"
       /\ loaded_tools[i].info.functions =
            TaggedCallables(loaded_tools[i].info.module.attrs)

\* A load that fails after the clone, with a tool already registered
C15_Witness ==
  /\ tlast.op = "add_tool_from_github"
  /\ tlast.clone.kind = "ok"
  /\ tlast.exc = "ValueError"
  /\ tlast.node.init.raises = "Exception"
  /\ Len(tlast.before) = 1
  /\ loaded_tools = tlast.before

CloneExited == tlast.op = "add_tool_from_github" /\ tlast.clone.kind = "exit"

\* C16: when git clone exits non-zero, the destination directory does not
\* exist afterwards, the tools root still exists, and the call fails with
\* the clone error, which carries the stderr of git.
C16_CloneFailureCleansUp ==
  CloneExited =>
    /\ tlast.path \notin DOMAIN dirs
    /\ ToolsDir \in DOMAIN dirs
    /\ tlast.exc = "ValueError"
    /\ tlast.msg = "Failed to clone repository"
    /\ tlast.stderr = tlast.clone.stderr

\* A clone that left a partial directory behind and wrote to stderr
C16_Witness ==
  /\ CloneExited
  /\ tlast.clone.partial
  /\ tlast.path \notin tlast.dirs_before
  /\ Len(tlast.stderr) > 0

\* C17: after add_tool_from_github, the destination directory exists if and
\* only if the call succeeded.
C17_DirectoryIffSuccess ==
  tlast.op = "add_tool_from_github" =>
    (tlast.path \in DOMAIN dirs <=> tlast.exc = "none")

\* The module add_tool_from_path imports for a node, NoModule when it
\* imports nothing
EntryModule(node, path) ==
  IF node.kind = "dir" THEN (IF node.init.exists THEN node.init ELSE node.main)
  ELSE IF node.kind = "file" /\ EndsWith(path, <<".","p","y">>) THEN node.mod
  ELSE NoModule

\* C18: add_tool_from_path fails with the tool-load error (ValueError) for
\* a directory with neither __init__.py nor main.py, for a path that is
\* neither a directory nor a .py file, and whenever the import of the entry
\* point raises; for a directory with both entry points it loads __init__.py.
C18_LoadFailures ==
  tlast.op = "add_tool_from_path" =>
    /\ (tlast.node.kind = "dir" /\ ~tlast.node.init.exists /\ ~tlast.node.main.exists)
         => tlast.exc = "ValueError"
    /\ (tlast.node.kind # "dir" /\ ~(tlast.node.kind = "file" /\ EndsWith(tlast.path, <<".","p","y">>)))
         => tlast.exc = "ValueError"
    /\ EntryModule(tlast.node, tlast.path).raises # "none" => tlast.exc = "ValueError"
    /\ (tlast.node.kind = "dir" /\ tlast.node.init.exists /\ tlast.node.main.exists)
         => tlast.entry = "__init__.py"

\* "<toolname>_<functionname>" for the tagged callables of the tools from the
\* i-th on, in registry order
RECURSIVE ExpectedNames(_, _)
ExpectedNames(lt, i) ==
  IF i > Len(lt) THEN <<>>
  ELSE LET fns == TaggedCallables(lt[i].info.module.attrs)
       IN [j \in DOMAIN fns |-> lt[i].key \o <<"_">> \o fns[j]] \o ExpectedNames(lt, i + 1)

SeqRange(q) == {q[i] : i \in DOMAIN q}

\* C19: get_tool_functions returns one entry per tagged callable of each
\* registered tool and none for the others, named "<toolname>_<functionname>",
\* the tools in insertion order: a successful load keeps the order of the
\* tools already registered and puts a new tool last.
C19_OneEntryPerTaggedCallable ==
  /\ get_tool_functions(loaded_tools) = ExpectedNames(loaded_tools, 1)
  /\ ToolSucceeded =>
       DictKeys(loaded_tools) =
         IF tlast.key \in SeqRange(DictKeys(tlast.before)) THEN DictKeys(tlast.before)
         ELSE Append(DictKeys(tlast.before), tlast.key)

\* Two tools registered, one of them with an untagged callable and one with
\* a tagged attribute that is not callable
C19_Witness ==
  /\ ToolSucceeded
  /\ Len(loaded_tools) = 2
  /\ Len(get_tool_functions(loaded_tools)) = 3
  /\ \E i \in DOMAIN loaded_tools : \E k \in DOMAIN loaded_tools[i].info.module.attrs :
        LET a == loaded_tools[i].info.module.attrs[k] IN a.callable /\ ~a.tagged
  /\ \E i \in DOMAIN loaded_tools : \E k \in DOMAIN loaded_tools[i].info.module.attrs :
        LET a == loaded_tools[i].info.module.attrs[k] IN ~a.callable /\ a.tagged

\* C20: the names returned by get_tool_functions are pairwise distinct.
C20_NamesDistinct ==
  \A i, j \in DOMAIN get_tool_functions(loaded_tools) :
    i # j => get_tool_functions(loaded_tools)[i] # get_tool_functions(loaded_tools)[j]

\* ---------------------------------------------------------------------
\* /health and /config (src/app.py)

\* health_check(): the provider and model of the answer, or what
\* Config.get_model_config() raised
health_check(e, ip) ==
  IF GetModelConfig(e).exc # "none"
  THEN [exc |-> GetModelConfig(e).exc, provider |-> NoneVal, model |-> NoneVal]
  ELSE [exc |-> "none",
        provider |-> Get(GetModelConfig(e).val, "provider", PROVIDER_OPENAI),
        model |-> ReadField(ip, "model")]

\* The provider id of each policy class
ProviderIdOf(cls) ==
  IF cls = "OpenAIProvider" THEN PROVIDER_OPENAI
  ELSE IF cls = "OllamaProvider" THEN PROVIDER_OLLAMA
  ELSE IF cls = "DeepseekProvider" THEN PROVIDER_DEEPSEEK
  ELSE PROVIDER_MHW

\* C26: after startup and update_provider calls, successful or failed, the
\* provider id that /health and /config report names the backend whose
\* policy most recently configured the shared interpreter object.
C26_ReportedProviderIsConfigured ==
  (pc = "serving" /\ last.op \in {"startup", "update_provider"} /\ last.calls # <<>>) =>
    /\ health_check(env, interp).exc = "none"
    /\ health_check(env, interp).provider = ProviderIdOf(LastCall.self.cls)

\* C21: the registry holds one LoadedTool per distinct tool name, stored
\* under a key equal to the tool's own name field; on a name collision the
\* entry is the tool added last.
C21_KeyedByOwnName ==
  /\ \A i, j \in DOMAIN loaded_tools :
       i # j => /\ loaded_tools[i].key # loaded_tools[j].key
                /\ loaded_tools[i].info.name # loaded_tools[j].info.name
  /\ \A i \in DOMAIN loaded_tools : loaded_tools[i].info.name = loaded_tools[i].key
  /\ ToolSucceeded =>
       \E i \in DOMAIN loaded_tools :
         /\ loaded_tools[i].key = tlast.key
         /\ loaded_tools[i].info.module = EntryModule(tlast.node, tlast.path)
         /\ loaded_tools[i].info.path = tlast.path

\* C29: add_tool_from_path changes sys.modules only by adding an entry for a
\* tool it loaded: an entry that was present keeps its module, and a load
\* that fails leaves sys.modules as it was.
C29_ModuleTableOnlyGrows ==
  tlast.op = "add_tool_from_path" =>
    /\ tlast.exc # "none" => sys_modules = tlast.modules_before
    /\ \A n \in DOMAIN tlast.modules_before :
         n \in DOMAIN sys_modules /\ sys_modules[n] = tlast.modules_before[n]

(***************************************************************************)
(* Auxiliary (MCP) servers (src/tools/manager.py).  A server module is a   *)
(* record of its optional methods; each is "absent", or what calling it    *)
(* does: "ok", "Exception" (raises a subclass of Exception) or             *)
(* "SystemExit" (raises a BaseException that is not an Exception).         *)
(***************************************************************************)

ServerModule(id, start, stop, get_status, get_endpoints) ==
  [id |-> id, start |-> start, stop |-> stop, get_status |-> get_status,
   get_endpoints |-> get_endpoints]

\* TryCall without the except clause
TryCall_Propagates(log, server, method) ==
  IF server[method] = "absent" THEN [log |-> log, exc |-> "none"]
  ELSE [log |-> [log EXCEPT ![server.id] = Append(@, method)],
        exc |-> IF server[method] = "ok" THEN "none" ELSE server[method]]

\* if hasattr(server, method) and callable(...): try: server.method()
\* except Exception: log.  log is the history of calls, exc what leaves the try
TryCall(log, server, method) ==
  IF server[method] = "absent" THEN [log |-> log, exc |-> "none"]
  ELSE [log |-> [log EXCEPT ![server.id] = Append(@, method)],
        exc |-> IF server[method] = "SystemExit" THEN "SystemExit" ELSE "none"]

\* register_mcp_server that stores the module only after start() returned
register_mcp_server_StartFirst(servers, log, name, server_module) ==
  [mcp_servers |-> IF server_module.start \in {"absent", "ok"}
                   THEN DictSet(servers, name, server_module) ELSE servers,
   log |-> TryCall(log, server_module, "start").log,
   exc |-> TryCall(log, server_module, "start").exc]

\* self.register_mcp_server(name, server_module)
register_mcp_server(servers, log, name, server_module) ==
  [mcp_servers |-> DictSet(servers, name, server_module),
   log |-> TryCall(log, server_module, "start").log,
   exc |-> TryCall(log, server_module, "start").exc]

\* The loop of start_all_mcp_servers / stop_all_mcp_servers from the i-th
\* server on; seen are the names the loop has reached
RECURSIVE CallAll(_, _, _, _, _)
CallNext(servers, r, method, i, seen) ==
  IF r.exc # "none" THEN [log |-> r.log, exc |-> r.exc, seen |-> seen]
  ELSE CallAll(servers, r.log, method, i + 1, seen)

CallAll(servers, log, method, i, seen) ==
  IF i > Len(servers) THEN [log |-> log, exc |-> "none", seen |-> seen]
  ELSE CallNext(servers, TryCall(log, servers[i].info, method), method, i,
                Append(seen, servers[i].key))

start_all_mcp_servers(servers, log) == CallAll(servers, log, "start", 1, <<>>)
stop_all_mcp_servers(servers, log) == CallAll(servers, log, "stop", 1, <<>>)

\* What get_status() and get_endpoints() return when they return
Running == "running"
Endpoints == <<"/mcp">>

\* ServerInfo with one default for a missing and a failing get_status
ServerInfo_UnknownOnFailure(name, server) ==
  [name |-> name,
   status |-> IF server.get_status = "ok" THEN Running ELSE "unknown",
   endpoints |-> IF server.get_endpoints = "ok" THEN Endpoints ELSE <<>>]

\* One server_info of get_mcp_server_info
ServerInfo(name, server) ==
  [name |-> name,
   status |-> IF server.get_status = "absent" THEN "unknown"
              ELSE IF server.get_status = "ok" THEN Running
              ELSE "error",
   endpoints |-> IF server.get_endpoints = "ok" THEN Endpoints ELSE <<>>]

\* What leaves the two try blocks for one server
ServerInfoExc(server) ==
  IF server.get_status = "SystemExit" \/ server.get_endpoints = "SystemExit"
  THEN "SystemExit" ELSE "none"

\* self.get_mcp_server_info() from the i-th server on
RECURSIVE ServerInfoFrom(_, _, _)
ServerInfoFrom(servers, i, info) ==
  IF i > Len(servers) THEN [info |-> info, exc |-> "none"]
  ELSE IF ServerInfoExc(servers[i].info) # "none"
  THEN [info |-> info, exc |-> ServerInfoExc(servers[i].info)]
  ELSE ServerInfoFrom(servers, i + 1,
                      Append(info, ServerInfo(servers[i].key, servers[i].info)))

get_mcp_server_info(servers) == ServerInfoFrom(servers, 1, <<>>)

MaxMcpOps == 3

\* The server modules offered for registration
ServerInputs ==
  {ServerModule(1, "ok", "ok", "ok", "ok"),
   ServerModule(2, "Exception", "absent", "Exception", "Exception"),
   ServerModule(3, "absent", "absent", "absent", "absent"),
   ServerModule(4, "SystemExit", "Exception", "ok", "absent")}
ServerNames == {<<"s","1">>, <<"s","2">>}

McpRecord(op, exc, name, server, seen, info) ==
  [op |-> op, exc |-> exc, name |-> name, server |-> server, seen |-> seen,
   info |-> info, before |-> mcp_servers, invoked_before |-> invoked]

NoServer == ServerModule(0, "absent", "absent", "absent", "absent")

RegisterMcpServer(name, server_module) ==
  /\ nmcp < MaxMcpOps
  /\ \E r \in {register_mcp_server(mcp_servers, invoked, name, server_module)} :
       /\ mcp_servers' = r.mcp_servers
       /\ invoked' = r.log
       /\ mlast' = McpRecord("register_mcp_server", r.exc, name, server_module, <<>>, <<>>)
  /\ nmcp' = nmcp + 1
  /\ UNCHANGED <<appVars, catVars, raceVars, toolVars, searchVars, listVars>>

StartAllMcpServers ==
  /\ nmcp < MaxMcpOps
  /\ \E r \in {start_all_mcp_servers(mcp_servers, invoked)} :
       /\ invoked' = r.log
       /\ mlast' = McpRecord("start_all_mcp_servers", r.exc, <<>>, NoServer, r.seen, <<>>)
  /\ nmcp' = nmcp + 1
  /\ UNCHANGED <<mcp_servers, appVars, catVars, raceVars, toolVars, searchVars, listVars>>

StopAllMcpServers ==
  /\ nmcp < MaxMcpOps
  /\ \E r \in {stop_all_mcp_servers(mcp_servers, invoked)} :
       /\ invoked' = r.log
       /\ mlast' = McpRecord("stop_all_mcp_servers", r.exc, <<>>, NoServer, r.seen, <<>>)
  /\ nmcp' = nmcp + 1
  /\ UNCHANGED <<mcp_servers, appVars, catVars, raceVars, toolVars, searchVars, listVars>>

GetMcpServerInfo ==
  /\ nmcp < MaxMcpOps
  /\ \E r \in {get_mcp_server_info(mcp_servers)} :
       mlast' = McpRecord("get_mcp_server_info", r.exc, <<>>, NoServer, <<>>, r.info)
  /\ nmcp' = nmcp + 1
  /\ UNCHANGED <<mcp_servers, invoked, appVars, catVars, raceVars, toolVars,
                 searchVars, listVars>>

McpNext ==
  \/ \E n \in ServerNames, s \in ServerInputs : RegisterMcpServer(n, s)
  \/ StartAllMcpServers
  \/ StopAllMcpServers
  \/ GetMcpServerInfo

McpSpec == InitToolManager /\ [][McpNext]_vars

\* ---------------------------------------------------------------------
\* Auxiliary server claims

\* The registered server at position i
ServerAt(i) == mcp_servers[i].info

\* Some registered server raises a BaseException that is not an Exception
\* from one of the methods named
Escapes(methods) ==
  \E i \in DOMAIN mcp_servers : \E m \in methods : ServerAt(i)[m] = "SystemExit"

Registered ==
  /\ \E i \in DOMAIN mcp_servers :
       mcp_servers[i].key = mlast.name /\ ServerAt(i) = mlast.server
  /\ invoked =
       [mlast.invoked_before EXCEPT
          ![mlast.server.id] = IF mlast.server.start = "absent" THEN @
                               ELSE Append(@, "start")]

AllOp == mlast.op \in {"start_all_mcp_servers", "stop_all_mcp_servers"}
AllMethod == IF mlast.op = "start_all_mcp_servers" THEN "start" ELSE "stop"

\* Every registered server was reached, and the method was called once for
\* every registration of a module that has it
VisitedAll ==
  /\ mlast.seen = DictKeys(mcp_servers)
  /\ \A h \in McpHandleIds :
       /\ Len(invoked[h]) = Len(mlast.invoked_before[h])
            + Cardinality({i \in DOMAIN mcp_servers :
                            ServerAt(i).id = h /\ ServerAt(i)[AllMethod] # "absent"})
       /\ SubSeq(invoked[h], 1, Len(mlast.invoked_before[h])) = mlast.invoked_before[h]
       /\ \A k \in DOMAIN invoked[h] :
            k > Len(mlast.invoked_before[h]) => invoked[h][k] = AllMethod

Started(h) == invoked[h] # <<>> /\ invoked[h][Len(invoked[h])] = "start"

\* C27: every server whose start was invoked and whose stop was not invoked
\* since is still registered, so that stop_all_mcp_servers reaches it.
C27_StartedStayRegistered ==
  \A h \in McpHandleIds :
    Started(h) => \E i \in DOMAIN mcp_servers : ServerAt(i).id = h

\* C28: for each server module the start and stop calls alternate,
\* beginning with start.
C28_StartStopAlternate ==
  \A h \in McpHandleIds : \A k \in DOMAIN invoked[h] :
    invoked[h][k] = IF k % 2 = 1 THEN "start" ELSE "stop"

(***************************************************************************)
(* Repository discovery (src/tools/github.py).  The answer of the search   *)
(* API is encoded like the answers of the model catalogues; probes gives,  *)
(* for each repository, the answer to the request for its manifest file:   *)
(* a status code, or 0 when the request raised.                            *)
(***************************************************************************)

\* self._check_for_file(repo_full_name, "tool-manifest.json")
CheckForFile(probes, repo_full_name) ==
  repo_full_name \in DOMAIN probes /\ probes[repo_full_name] = 200

\* One pass of the loop over data["items"]
RepoInfo(repo, probes) ==
  IF ~IsObject(repo) THEN Raise("AttributeError")
  ELSE IF "full_name" \notin DOMAIN repo THEN Raise("KeyError")
  ELSE Ok([name |-> Get(repo, "name", <<>>),
           full_name |-> Get(repo, "full_name", <<>>),
           stars |-> Get(repo, "stargazers_count", 0),
           has_manifest |-> CheckForFile(probes, repo["full_name"])])

\* The whole loop: results in the order of items, or the first exception
RECURSIVE Candidates(_, _)

\* CandidatesAfter that keeps the results sorted on the client, most stars first
CandidatesAfter_MostStarsFirst(first, rest) ==
  IF first.exc # "none" THEN first
  ELSE IF rest.exc # "none" THEN rest
  ELSE LET p == Cardinality({i \in DOMAIN rest.val : rest.val[i].stars >= first.val.stars})
       IN Ok(SubSeq(rest.val, 1, p) \o <<first.val>> \o SubSeq(rest.val, p + 1, Len(rest.val)))

CandidatesAfter(first, rest) ==
  IF first.exc # "none" THEN first
  ELSE IF rest.exc # "none" THEN rest
  ELSE Ok(<<first.val>> \o rest.val)

Candidates(items, probes) ==
  IF Len(items) = 0 THEN Ok(<<>>)
  ELSE CandidatesAfter(RepoInfo(Head(items), probes), Candidates(Tail(items), probes))

\* The try block once the response is there
SearchBody(body, probes) ==
  IF body.json = "invalid" THEN Raise("JSONDecodeError")
  ELSE IF body.json # "object" THEN Raise("AttributeError")
  ELSE IF Get(body.obj, "items", [t |-> "list", items |-> <<>>]).t # "list"
  THEN Raise("TypeError")
  ELSE Candidates(Get(body.obj, "items", [t |-> "list", items |-> <<>>]).items, probes)

\* What the except block makes of the try block's outcome
SearchResult(r) ==
  IF r.exc # "none" THEN [exc |-> "none", results |-> <<>>, caught |-> r.exc]
  ELSE [exc |-> "none", results |-> r.val, caught |-> "none"]

\* self.search_repositories(query, tool_types)
search_repositories(response, probes) ==
  IF response.kind = "transport_error" THEN SearchResult(Raise("ConnectionError"))
  ELSE IF response.status # 200 THEN SearchResult(Ok(<<>>))
  ELSE SearchResult(SearchBody(response.body, probes))

MaxSearches == 2

\* Repositories the search API knows, with their stars
Repo(name, stars) ==
  [k \in {"name", "full_name", "stargazers_count"} |->
     IF k = "name" THEN name
     ELSE IF k = "full_name" THEN <<"u","/">> \o name
     ELSE stars]
RepoA == Repo(<<"a">>, 5)
RepoB == Repo(<<"b">>, 9)
RepoC == Repo(<<"c">>, 1)
Nameless == [k \in {"name"} |-> <<"x">>]
NotARepo == [k \in {"notobj"} |-> TRUE]

ItemLists ==
  {<<>>} \cup {<<r>> : r \in {RepoA, RepoB, RepoC, Nameless, NotARepo}}
  \cup {<<r, q>> : r \in {RepoA, RepoB, RepoC}, q \in {RepoA, RepoB, RepoC, Nameless}}

SearchResponses ==
  {[kind |-> "transport_error"],
   Http(403, ListBody("items", <<RepoA>>)),
   Http(500, [json |-> "invalid"]),
   Http(200, [json |-> "invalid"]),
   Http(200, [json |-> "list"]),
   Http(200, ObjectBody([k \in {"message"} |-> <<"o","k">>])),
   Http(200, ObjectBody([k \in {"items"} |-> [t |-> "null"]]))}
  \cup {Http(200, ListBody("items", l)) : l \in ItemLists}

ProbeInputs ==
  {[n \in {<<"u","/","a">>, <<"u","/","b">>, <<"u","/","c">>} |-> 200],
   [n \in {<<"u","/","a">>, <<"u","/","b">>, <<"u","/","c">>} |-> IF n = <<"u","/","b">> THEN 404 ELSE 200],
   [n \in {<<"u","/","a">>, <<"u","/","b">>, <<"u","/","c">>} |-> IF n = <<"u","/","a">> THEN 0 ELSE 404]}

SearchTools(response, probes) ==
  /\ nsearch < MaxSearches
  /\ \E r \in {search_repositories(response, probes)} :
       slast' = [op |-> "search_repositories", exc |-> r.exc, results |-> r.results,
                 caught |-> r.caught, response |-> response, probes |-> probes]
  /\ nsearch' = nsearch + 1
  /\ UNCHANGED <<appVars, catVars, raceVars, toolVars, mcpVars, listVars>>

SearchNext == \E response \in SearchResponses, probes \in ProbeInputs : SearchTools(response, probes)

SearchSpec == InitToolManager /\ [][SearchNext]_vars

\* The items of a 200 answer whose body carries a list of repositories
WellFormed ==
  /\ slast.response.kind = "http"
  /\ slast.response.status = 200
  /\ slast.response.body.json = "object"
  /\ "items" \in DOMAIN slast.response.body.obj
  /\ slast.response.body.obj["items"].t = "list"
  /\ \A i \in DOMAIN slast.response.body.obj["items"].items :
       LET repo == slast.response.body.obj["items"].items[i]
       IN IsObject(repo) /\ "full_name" \in DOMAIN repo

\* C25: search_repositories never raises; on a transport error or a status
\* other than 200 it returns an empty sequence; on a 200 answer it returns
\* the candidates in the order of the answer (an answer that cannot be
\* processed gives the empty sequence, never a reordered or partial one).
C25_SearchNeverRaises ==
  slast.op = "search_repositories" =>
    /\ slast.exc = "none"
    /\ (slast.response.kind = "transport_error" \/ slast.response.status # 200)
         => slast.results = <<>>
    /\ WellFormed =>
         LET items == slast.response.body.obj["items"].items
         IN /\ Len(slast.results) = Len(items)
            /\ \A i \in DOMAIN items :
                 /\ slast.results[i].full_name = items[i]["full_name"]
                 /\ slast.results[i].stars = items[i]["stargazers_count"]
    /\ ~WellFormed => slast.results = <<>>

\* A 200 answer listing two repositories, the one with fewer stars first
C25_Witness ==
  /\ slast.op = "search_repositories"
  /\ WellFormed
  /\ Len(slast.results) = 2
  /\ slast.results[1].stars < slast.results[2].stars

(***************************************************************************)
(* A listing request served while another request registers a tool or a    *)
(* server.  The loops of get_tool_functions and get_mcp_server_info walk   *)
(* the registry dict with a dict iterator: it remembers the size of the    *)
(* dict when it is created, and every next() raises RuntimeError when the  *)
(* size has changed.  The registration is one assignment to the dict.      *)
(***************************************************************************)

\* The registry a listing walks
RegistryOf(kind) == IF kind = "tools" THEN loaded_tools ELSE mcp_servers

\* What the loop body appends for one entry
ListedFor(kind, entry) ==
  IF kind = "tools" THEN Schemas(entry.key, entry.info.functions)
  ELSE <<ServerInfo(entry.key, entry.info)>>

\* for ... in self.loaded_tools.items(): the iterator is created
ListStart(kind) ==
  /\ listing.pc = "idle"
  /\ listing' = [pc |-> "iterating", kind |-> kind, pos |-> 0,
                 used |-> Len(RegistryOf(kind)), out |-> <<>>, exc |-> "none"]
  /\ UNCHANGED <<appVars, catVars, raceVars, toolVars, mcpVars, searchVars>>

\* One next() of the iterator with the loop body, or the end of the loop
ListStep ==
  /\ listing.pc = "iterating"
  /\ listing' =
       IF Len(RegistryOf(listing.kind)) # listing.used
       THEN [listing EXCEPT !.pc = "done", !.exc = "RuntimeError"]
       ELSE IF listing.pos >= Len(RegistryOf(listing.kind))
       THEN [listing EXCEPT !.pc = "done"]
       ELSE [listing EXCEPT
               !.pos = @ + 1,
               !.out = @ \o ListedFor(listing.kind,
                                      RegistryOf(listing.kind)[listing.pos + 1])]
  /\ UNCHANGED <<appVars, catVars, raceVars, toolVars, mcpVars, searchVars>>

\* The one registration that runs while the listing does
AddWhileListing(path, name) ==
  /\ listing.pc = "iterating"
  /\ listing.kind = "tools"
  /\ ntool = 0
  /\ AddToolFromPath(path, name)

RegisterWhileListing(name, server_module) ==
  /\ listing.pc = "iterating"
  /\ listing.kind = "servers"
  /\ nmcp = 0
  /\ RegisterMcpServer(name, server_module)

\* A manager that holds one tool and one server, or none
OneTool == add_tool_from_path(<<>>, HostFiles[<<"/","t","/","a">>], <<"/","t","/","a">>, NoneVal).loaded_tools
OneServer == DictSet(<<>>, <<"s","1">>, ServerModule(1, "ok", "ok", "ok", "ok"))

InitListingSpec ==
  /\ env = <<>>
  /\ interp = <<>>
  /\ pc = "serving"
  /\ resp = NoResp
  /\ last = NoLast
  /\ nreq = 0
  /\ InitCat
  /\ InitThreads
  /\ InitSearch
  /\ InitListing
  /\ dirs = [p \in {ToolsDir} |-> [kind |-> "dir"]]
  /\ tlast = NoToolOp
  /\ ntool = 0
  /\ \/ loaded_tools = <<>> /\ sys_modules = StdModules
     \/ /\ loaded_tools = OneTool
        /\ sys_modules = ModulesAfter(StdModules, HostFiles[<<"/","t","/","a">>], <<"/","t","/","a">>, NoneVal)
  /\ mlast = NoMcpOp
  /\ nmcp = 0
  /\ \/ mcp_servers = <<>> /\ invoked = [h \in McpHandleIds |-> <<>>]
     \/ /\ mcp_servers = OneServer
        /\ invoked = [h \in McpHandleIds |-> IF h = 1 THEN <<"start">> ELSE <<>>]

ListingNext ==
  \/ \E kind \in {"tools", "servers"} : ListStart(kind)
  \/ ListStep
  \/ \E p \in PathInputs, n \in NameInputs : AddWhileListing(p, n)
  \/ \E n \in ServerNames, s \in ServerInputs : RegisterWhileListing(n, s)

ListingSpec == InitListingSpec /\ [][ListingNext]_vars

\* The registry before and after the concurrent registration
RegistryBefore ==
  IF listing.kind = "tools"
  THEN (IF tlast.op = "none" THEN loaded_tools ELSE tlast.before)
  ELSE (IF mlast.op = "none" THEN mcp_servers ELSE mlast.before)

\* What the listing returns for a registry that does not change
ListingOf(kind, registry) ==
  IF kind = "tools" THEN get_tool_functions(registry)
  ELSE get_mcp_server_info(registry).info

\* C30: a listing that interleaves with a concurrent add_tool_from_path or
\* register_mcp_server completes without error and returns the listing of
\* the registry before or after that registration.
C30_ListingAtomic ==
  listing.pc = "done" =>
    /\ listing.exc = "none"
    /\ \/ listing.out = ListingOf(listing.kind, RegistryBefore)
       \/ listing.out = ListingOf(listing.kind, RegistryOf(listing.kind))

====
